---- MODULE Spec2Model ----
(***************************************************************************)
(* The controller service of the CloudStack CSI driver: the CSI           *)
(* Controller RPCs (pkg/driver controller), the two lock registries they  *)
(* use, and the cloud connector they call.  Each RPC runs on its own      *)
(* task; every lock operation and every cloud call is one atomic step.    *)
(***************************************************************************)
EXTENDS Integers, Sequences, FiniteSets, TLC

(***************************************************************************)
(* Bounds of the model.                                                    *)
(***************************************************************************)
\* Byte counts are kept in units of 2^30/GiB bytes: one GiB is GiB units.
GiB == 2
\* The number of volumes the cloud creates in one behaviour.
MaxVolumes == 2
\* The number of snapshots the cloud ever holds in one behaviour.
MaxSnapshots == 3

(***************************************************************************)
(* Values.                                                                 *)
(***************************************************************************)
Handlers == {"h1", "h2"}
AllIDs == <<"v1", "v2", "v3", "v4">>
VolumeIDs == {AllIDs[i] : i \in 1..MaxVolumes}
Names == {"n1", "n2"}
Offerings == {"o1", "o2"}
Zones == {"z1", "z2"}
VMs == {"vm1", "vm2"}
AllSnapshotIDs == <<"s1", "s2", "s3", "s4">>
SnapshotIDs == {AllSnapshotIDs[i] : i \in 1..MaxSnapshots}
SnapshotNames == {"sn1", "sn2"}

\* Snapshot.CreatedAt as the cloud writes it: date and time, then the offset
\* from UTC.  The second value has a colon in the offset.
CreatedAts == {<<"2025-07-07T16:13:06", "-0700">>, <<"2025-07-07T16:13:06", "-07:00">>}

ZoneKey == "topology.csi.cloudstack.apache.org/zone"
HostKey == "topology.csi.cloudstack.apache.org/host"

SINGLE_NODE_WRITER == "SINGLE_NODE_WRITER"
MULTI_NODE_MULTI_WRITER == "MULTI_NODE_MULTI_WRITER"
NilAccessMode == "nil"

NoVol == [id |-> ""]
NoSnap == [id |-> ""]
\* A snapshot the cloud had and has deleted: its ID is not handed out again.
DeletedSnap == [id |-> "", deleted |-> TRUE]
NoResp == [code |-> "none"]
NoReq == [rpc |-> "none"]
NoLoc == [none |-> TRUE]

\* A nil *csi.CapacityRange: its getters return 0.
NoRange == [present |-> FALSE, required |-> 0, limit |-> 0]
Range(required, limit) == [present |-> TRUE, required |-> required, limit |-> limit]

\* A csi.Topology is its segments map; the nil map is the empty map.
Segment(zone) == ZoneKey :> zone
HostOnlySegment == HostKey :> "host1"

(***************************************************************************)
(* pkg/util: units.                                                        *)
(***************************************************************************)
\* The largest int64, scaled as GiB is: an int64 holds MaxInt64 \div GiB
\* whole GiB and not one more (2^63 - 1 bytes against 2^30).
MaxInt64 == 127

\* A Go int64 result: the value modulo the width, in -(MaxInt64+1)..MaxInt64.
Int64(n) == ((n + MaxInt64 + 1) % (2 * (MaxInt64 + 1))) - (MaxInt64 + 1)

RoundUpBytesToGBDown(b) == b \div GiB

RoundUpBytesToGB(b) == (b + GiB - 1) \div GiB

\* gb_test.go: var gb int64; the product is an int64.
GigaBytesToBytes(g) == Int64(g * GiB)

(***************************************************************************)
(* pkg/util: the two lock registries.                                      *)
(***************************************************************************)
TryAcquire(locks, key) == key \notin locks

Release(locks, key) == locks \ {key}

\* The operation-kind registry is a set of <<kind, volumeID>>.
GetDeleteLock(ops, id) == <<"expand", id>> \notin ops

GetExpandLock(ops, id) == <<"delete", id>> \notin ops

(***************************************************************************)
(* State.                                                                  *)
(***************************************************************************)
VARIABLES
    volumes,        \* the cloud's volumes: volume ID -> volume, or NoVol
    nextID,         \* the index in AllIDs of the next volume ID the cloud hands out
    snapshots,      \* the cloud's snapshots: snapshot ID -> snapshot, or NoSnap
    volumeLocks,    \* controllerServer.volumeLocks: the keys held
    operationLocks, \* controllerServer.operationLocks: <<kind, volumeID>> held
    rpc             \* per task: the RPC it runs, where it is, and its response

vars == <<volumes, nextID, snapshots, volumeLocks, operationLocks, rpc>>

Idle == [kind |-> "none", pc |-> "idle", req |-> NoReq, loc |-> NoLoc,
         calls |-> <<>>, resp |-> NoResp]

Init ==
    /\ volumes = [id \in VolumeIDs |-> NoVol]
    /\ nextID = 1
    /\ snapshots = [id \in SnapshotIDs |->
                      IF id = "s1"
                      THEN [id |-> id, name |-> "sn1", volume |-> "v0",
                            size |-> 2 * GiB + 1, zone |-> "z1", project |-> "",
                            created |-> <<"2025-07-07T16:13:06", "-0700">>]
                      ELSE NoSnap]
    /\ volumeLocks = {}
    /\ operationLocks = {}
    /\ rpc = [h \in Handlers |-> Idle]

Free(h) == rpc[h].pc \in {"idle", "done"}

(***************************************************************************)
(* pkg/cloud: the connector.  A connector call answers with err = "" and   *)
(* a value, or with an error kind.                                         *)
(***************************************************************************)
CloudError == [err |-> "error"]

\* strconv.FormatInt(n, 10) for the device numbers of the model.
FormatInt(n) == <<"0", "1">>[n + 1]

\* The Volume the connector builds from one element of a ListVolumes answer.
ToVolume(v) ==
    [ID |-> v.id, Name |-> v.name, Size |-> v.size,
     DiskOfferingID |-> v.offering, ZoneID |-> v.zone,
     VirtualMachineID |-> v.vmid, DeviceID |-> FormatInt(v.deviceid)]

\* A lookup that does not look at the count beyond zero.
listVolumesFirst(matches) ==
    IF Cardinality(matches) = 0 THEN [err |-> "NotFound"]
    ELSE [err |-> "", vol |-> ToVolume(CHOOSE v \in matches : TRUE)]

listVolumes(matches) ==
    IF Cardinality(matches) = 0 THEN [err |-> "NotFound"]
    ELSE IF Cardinality(matches) > 1 THEN [err |-> "TooManyResults"]
    ELSE [err |-> "", vol |-> ToVolume(CHOOSE v \in matches : TRUE)]

Existing == {volumes[id] : id \in {i \in VolumeIDs : volumes[i] # NoVol}}

GetVolumeByID(volumeID) == listVolumes({v \in Existing : v.id = volumeID})

GetVolumeByName(name) == listVolumes({v \in Existing : v.name = name})

\* The Snapshot the connector builds: Size is not among the fields it fills.
GetSnapshotByID(snapshotID) ==
    IF snapshotID \in SnapshotIDs /\ snapshots[snapshotID] \notin {NoSnap, DeletedSnap}
    THEN [err |-> "",
          snap |-> [ID |-> snapshotID, Size |-> 0,
                    ZoneID |-> snapshots[snapshotID].zone,
                    ProjectID |-> snapshots[snapshotID].project]]
    ELSE [err |-> "NotFound"]

\* The cloud has an ID left to hand out.
CanCreate == nextID <= MaxVolumes

NewVolume(name, offering, zone, size) ==
    [id |-> AllIDs[nextID], name |-> name, size |-> size, offering |-> offering,
     zone |-> zone, vmid |-> "", deviceid |-> 0]

\* The cloud stores a volume of the given offering, zone, name and size.
CloudCreateVolume(diskOfferingID, zoneID, name, sizeInGB) ==
    /\ volumes' = [volumes EXCEPT ![AllIDs[nextID]] =
                      NewVolume(name, diskOfferingID, zoneID, GigaBytesToBytes(sizeInGB))]
    /\ nextID' = nextID + 1

\* The sizes the cloud may give a volume made from a snapshot: the size asked
\* for, or the size it records for the snapshot.
SnapshotVolumeSizes(snapshotID, sizeInGB) ==
    {GigaBytesToBytes(sizeInGB), snapshots[snapshotID].size}

\* No disk offering is sent with the request: the cloud picks it.
CloudCreateVolumeFromSnapshot(zoneID, name, offering, size) ==
    /\ volumes' = [volumes EXCEPT ![AllIDs[nextID]] =
                      NewVolume(name, offering, zoneID, size)]
    /\ nextID' = nextID + 1

(***************************************************************************)
(* pkg/driver: topology.                                                   *)
(***************************************************************************)
\* The segments of a csi.Topology that has none: GetSegments returns nil.
NilSegments == [nil |-> TRUE]

NewTopology(segments) ==
    IF segments = NilSegments
    THEN [err |-> "nil segment in topology"]
    ELSE IF ZoneKey \notin DOMAIN segments
    THEN [err |-> "no zone in topology"]
    ELSE [err |-> "", ZoneID |-> segments[ZoneKey],
          HostID |-> IF HostKey \in DOMAIN segments THEN segments[HostKey] ELSE ""]

\* A conversion that writes the host segment whatever the HostID.
ToCSIAlwaysHost(t) == (ZoneKey :> t.ZoneID) @@ (HostKey :> t.HostID)

ToCSI(t) ==
    IF t.HostID # "" THEN (ZoneKey :> t.ZoneID) @@ (HostKey :> t.HostID)
    ELSE ZoneKey :> t.ZoneID

(***************************************************************************)
(* pkg/driver: CreateVolume.                                               *)
(***************************************************************************)
isValidVolumeCapabilities(volCaps) ==
    \A i \in 1..Len(volCaps) :
        ~(volCaps[i] # NilAccessMode /\ volCaps[i] # SINGLE_NODE_WRITER)

\* A suitability check that leaves the requisite topology out.
checkVolumeSuitableAnyZone(vol, diskOfferingID, capRange, requisite) ==
    /\ vol.DiskOfferingID = diskOfferingID
    /\ ~(capRange.present /\ capRange.limit > 0 /\ vol.Size > capRange.limit)
    /\ ~(capRange.present /\ capRange.required > 0 /\ vol.Size < capRange.required)

checkVolumeSuitable(vol, diskOfferingID, capRange, requisite) ==
    IF vol.DiskOfferingID # diskOfferingID THEN FALSE
    ELSE IF capRange.present /\ capRange.limit > 0 /\ vol.Size > capRange.limit
    THEN FALSE
    ELSE IF capRange.present /\ capRange.required > 0 /\ vol.Size < capRange.required
    THEN FALSE
    ELSE IF requisite # <<>>
    THEN IF Len(requisite) > 1 THEN FALSE
         ELSE IF NewTopology(requisite[1]).err # "" THEN FALSE
         ELSE NewTopology(requisite[1]).ZoneID = vol.ZoneID
    ELSE TRUE

\* A size that is held against the limit before the floor of 1 GiB is applied.
determineSizeLimitFirst(capRange) ==
    LET rounded == RoundUpBytesToGB(capRange.required)
        sizeInGB == IF rounded = 0 THEN 1 ELSE rounded
    IN  IF capRange.present /\ capRange.limit > 0
           /\ GigaBytesToBytes(rounded) > capRange.limit
        THEN [size |-> 0, err |-> TRUE]
        ELSE [size |-> sizeInGB, err |-> FALSE]

determineSize(capRange) ==
    LET rounded == RoundUpBytesToGB(capRange.required)
        sizeInGB == IF rounded = 0 THEN 1 ELSE rounded
    IN  IF capRange.present
        THEN IF capRange.limit > 0 /\ GigaBytesToBytes(sizeInGB) > capRange.limit
             THEN [size |-> 0, err |-> TRUE]
             ELSE [size |-> sizeInGB, err |-> FALSE]
        ELSE [size |-> 1, err |-> FALSE]

Status(code) == [code |-> code]

\* A return before any lock is taken.
Return(h, kind, req, resp) ==
    rpc' = [rpc EXCEPT ![h] = [kind |-> kind, pc |-> "done", req |-> req,
                               loc |-> NoLoc, calls |-> <<>>, resp |-> resp]]

Start(h, kind, req, pc) ==
    rpc' = [rpc EXCEPT ![h] = [kind |-> kind, pc |-> pc, req |-> req,
                               loc |-> NoLoc, calls |-> <<>>, resp |-> NoResp]]

\* A handler that goes on whether or not TryAcquire succeeded.
CreateVolumeUnlocked(acquired) == TRUE

\* The handler goes on only with the lock acquired.
CreateVolumeLocked(acquired) == acquired

\* A handler without the deferred Release.
CreateVolumeNotDeferred(locks, name) == locks

\* defer cs.volumeLocks.Release(name)
CreateVolumeDeferred(locks, name) == Release(locks, name)

CreateVolumeReturn(h, resp) ==
    /\ rpc' = [rpc EXCEPT ![h].pc = "done", ![h].resp = resp, ![h].loc = NoLoc]
    /\ volumeLocks' = CreateVolumeDeferred(volumeLocks, rpc[h].req.name)

\* A handler that issues a create call that failed once more.
CreateVolumeIssueRetrying(h, call, resp) ==
    IF resp.code = "Internal" /\ rpc[h].calls = <<>>
    THEN /\ rpc' = [rpc EXCEPT ![h].calls = Append(@, call)]
         /\ UNCHANGED volumeLocks
    ELSE /\ rpc' = [rpc EXCEPT ![h].pc = "done", ![h].resp = resp, ![h].loc = NoLoc,
                               ![h].calls = Append(@, call)]
         /\ volumeLocks' = CreateVolumeDeferred(volumeLocks, rpc[h].req.name)

\* The return after the call that creates the volume.
CreateVolumeIssue(h, call, resp) ==
    /\ rpc' = [rpc EXCEPT ![h].pc = "done", ![h].resp = resp, ![h].loc = NoLoc,
                          ![h].calls = Append(@, call)]
    /\ volumeLocks' = CreateVolumeDeferred(volumeLocks, rpc[h].req.name)

\* Argument checks, then TryAcquire(name).
CreateVolumeBegin(h, req) ==
    /\ Free(h)
    /\ UNCHANGED <<volumes, nextID, snapshots, operationLocks>>
    /\ IF req.name = "" \/ Len(req.caps) = 0 \/ ~isValidVolumeCapabilities(req.caps)
          \/ req.offering = ""
       THEN /\ Return(h, "CreateVolume", req, Status("InvalidArgument"))
            /\ UNCHANGED volumeLocks
       ELSE IF ~CreateVolumeLocked(TryAcquire(volumeLocks, req.name))
       THEN /\ Return(h, "CreateVolume", req, Status("Aborted"))
            /\ UNCHANGED volumeLocks
       ELSE /\ Start(h, "CreateVolume", req, "cv_lookup")
            /\ volumeLocks' = volumeLocks \cup {req.name}

\* What follows a by-name lookup that found nothing, up to the next cloud call.
CreateVolumePlan(h) ==
    LET req == rpc[h].req
        size == determineSize(req.range)
    IN  IF size.err THEN CreateVolumeReturn(h, Status("InvalidArgument"))
        ELSE IF req.snapshot # ""
        THEN /\ rpc' = [rpc EXCEPT ![h].pc = "cv_getsnap",
                                   ![h].loc = [sizeInGB |-> size.size]]
             /\ UNCHANGED volumeLocks
        ELSE IF req.requisite = <<>>
        THEN /\ rpc' = [rpc EXCEPT ![h].pc = "cv_zones",
                                   ![h].loc = [sizeInGB |-> size.size]]
             /\ UNCHANGED volumeLocks
        ELSE IF Len(req.requisite) > 1
        THEN CreateVolumeReturn(h, Status("InvalidArgument"))
        ELSE IF NewTopology(req.requisite[1]).err # ""
        THEN CreateVolumeReturn(h, Status("InvalidArgument"))
        ELSE /\ rpc' = [rpc EXCEPT ![h].pc = "cv_create",
                                   ![h].loc = [sizeInGB |-> size.size,
                                               zoneID |-> NewTopology(req.requisite[1]).ZoneID]]
             /\ UNCHANGED volumeLocks

\* GetVolumeByName, and the answer for a volume that exists.
CreateVolumeLookup(h) ==
    /\ rpc[h].pc = "cv_lookup"
    /\ UNCHANGED <<volumes, nextID, snapshots, operationLocks>>
    /\ \E fault \in BOOLEAN :
        LET req == rpc[h].req
            r == IF fault THEN CloudError ELSE GetVolumeByName(req.name)
        IN  IF r.err = "NotFound" THEN CreateVolumePlan(h)
            ELSE IF r.err # "" THEN CreateVolumeReturn(h, Status("Internal"))
            ELSE IF ~checkVolumeSuitable(r.vol, req.offering, req.range, req.requisite)
            THEN CreateVolumeReturn(h, Status("AlreadyExists"))
            ELSE CreateVolumeReturn(h, [code |-> "OK", VolumeId |-> r.vol.ID,
                                        CapacityBytes |-> r.vol.Size,
                                        ZoneID |-> r.vol.ZoneID])

\* GetSnapshotByID, and the size of the volume to make from the snapshot.
CreateVolumeGetSnapshot(h) ==
    /\ rpc[h].pc = "cv_getsnap"
    /\ UNCHANGED <<volumes, nextID, snapshots, operationLocks>>
    /\ \E fault \in BOOLEAN :
        LET r == IF fault THEN CloudError ELSE GetSnapshotByID(rpc[h].req.snapshot)
            sizeInGB == rpc[h].loc.sizeInGB
        IN  IF r.err = "NotFound" THEN CreateVolumeReturn(h, Status("NotFound"))
            ELSE IF r.err # "" THEN CreateVolumeReturn(h, Status("Internal"))
            ELSE /\ rpc' = [rpc EXCEPT ![h].pc = "cv_fromsnap",
                              ![h].loc = [sizeInGB |->
                                            IF RoundUpBytesToGB(r.snap.Size) > sizeInGB
                                            THEN RoundUpBytesToGB(r.snap.Size)
                                            ELSE sizeInGB,
                                          zoneID |-> r.snap.ZoneID]]
                 /\ UNCHANGED volumeLocks

\* connector.CreateVolumeFromSnapshot, and the answer.
CreateVolumeFromSnapshot(h) ==
    /\ rpc[h].pc = "cv_fromsnap"
    /\ UNCHANGED <<snapshots, operationLocks>>
    /\ \E fault \in {f \in BOOLEAN : f \/ CanCreate} :
        IF fault
        THEN /\ CreateVolumeIssue(h, "CreateVolumeFromSnapshot", Status("Internal"))
             /\ UNCHANGED <<volumes, nextID>>
        ELSE \E offering \in Offerings :
             \E size \in SnapshotVolumeSizes(rpc[h].req.snapshot, rpc[h].loc.sizeInGB) :
                /\ CloudCreateVolumeFromSnapshot(rpc[h].loc.zoneID, rpc[h].req.name,
                                                 offering, size)
                /\ CreateVolumeIssue(h, "CreateVolumeFromSnapshot",
                      [code |-> "OK", VolumeId |-> AllIDs[nextID],
                       CapacityBytes |-> size, ZoneID |-> rpc[h].loc.zoneID])

\* ListZonesID, and the choice of a zone.
CreateVolumeListZones(h) ==
    /\ rpc[h].pc = "cv_zones"
    /\ UNCHANGED <<volumes, nextID, snapshots, operationLocks>>
    /\ \E fault \in BOOLEAN :
        IF fault THEN CreateVolumeReturn(h, Status("InvalidArgument"))
        ELSE \E zones \in SUBSET Zones :
                IF Cardinality(zones) = 0 THEN CreateVolumeReturn(h, Status("Internal"))
                ELSE \E zoneID \in zones :
                        /\ rpc' = [rpc EXCEPT ![h].pc = "cv_create",
                                              ![h].loc = [sizeInGB |-> rpc[h].loc.sizeInGB,
                                                          zoneID |-> zoneID]]
                        /\ UNCHANGED volumeLocks

\* connector.CreateVolume, and the answer.
CreateVolumeCreate(h) ==
    /\ rpc[h].pc = "cv_create"
    /\ UNCHANGED <<snapshots, operationLocks>>
    /\ \E fault \in {f \in BOOLEAN : f \/ CanCreate} :
        IF fault
        THEN /\ CreateVolumeIssue(h, "CreateVolume", Status("Internal"))
             /\ UNCHANGED <<volumes, nextID>>
        ELSE /\ CloudCreateVolume(rpc[h].req.offering, rpc[h].loc.zoneID,
                                  rpc[h].req.name, rpc[h].loc.sizeInGB)
             /\ CreateVolumeIssue(h, "CreateVolume",
                   [code |-> "OK", VolumeId |-> AllIDs[nextID],
                    CapacityBytes |-> GigaBytesToBytes(rpc[h].loc.sizeInGB),
                    ZoneID |-> rpc[h].loc.zoneID])

(***************************************************************************)
(* pkg/cloud: virtual machines, and the calls that change a volume.        *)
(***************************************************************************)
GetVMByID(vmID) == IF vmID \in VMs THEN [err |-> ""] ELSE [err |-> "NotFound"]

\* What the cloud may answer to DeleteVolume: it removes a volume it has; it
\* answers with error 4350 (invalid parameter value) for a volume it does not
\* have, and for one it refuses to remove because it is attached.
DeleteOutcomes(id) ==
    IF GetVolumeByID(id).err # "" THEN {"4350"}
    ELSE IF volumes[id].vmid # "" THEN {"4350"}
    ELSE {"ok"}

\* A client that passes error 4350 on as it is.
DeleteVolumeErrorOpaque(outcome) == IF outcome = "ok" THEN "" ELSE "error"

\* client.DeleteVolume: error 4350 becomes ErrNotFound.
DeleteVolumeError(outcome) ==
    IF outcome = "4350" THEN "NotFound" ELSE IF outcome = "ok" THEN "" ELSE "error"

CloudDeleteVolume(id, outcome) ==
    /\ volumes' = IF outcome = "ok" THEN [volumes EXCEPT ![id] = NoVol] ELSE volumes
    /\ UNCHANGED nextID

\* The cloud attaches a detached volume it has to a VM it has.
CanAttach(volumeID, vmID) ==
    /\ GetVolumeByID(volumeID).err = ""
    /\ volumes[volumeID].vmid = ""
    /\ vmID \in VMs

CloudAttachVolume(volumeID, vmID) ==
    /\ volumes' = [volumes EXCEPT ![volumeID].vmid = vmID, ![volumeID].deviceid = 1]
    /\ UNCHANGED nextID

CanDetach(volumeID) ==
    /\ GetVolumeByID(volumeID).err = ""
    /\ volumes[volumeID].vmid # ""

CloudDetachVolume(volumeID) ==
    /\ volumes' = [volumes EXCEPT ![volumeID].vmid = "", ![volumeID].deviceid = 0]
    /\ UNCHANGED nextID

\* A resize that sets the size asked for, be it smaller.
ExpandedSizeShrinking(size, newSizeInGB) == GigaBytesToBytes(newSizeInGB)

\* The size a volume has after a resize to newSizeInGB.
ExpandedSize(size, newSizeInGB) ==
    IF GigaBytesToBytes(newSizeInGB) > size THEN GigaBytesToBytes(newSizeInGB) ELSE size

CloudExpandVolume(volumeID, newSizeInGB) ==
    /\ volumes' = [volumes EXCEPT ![volumeID].size = ExpandedSize(@, newSizeInGB)]
    /\ UNCHANGED nextID

(***************************************************************************)
(* pkg/driver: DeleteVolume.                                               *)
(***************************************************************************)
\* A handler that goes on whether or not TryAcquire succeeded.
DeleteVolumeUnlocked(acquired) == TRUE

\* The handler goes on only with the lock acquired.
DeleteVolumeLocked(acquired) == acquired

\* A handler without the deferred Release.
DeleteVolumeNotDeferred(locks, volumeID) == locks

\* defer cs.volumeLocks.Release(volumeID)
DeleteVolumeDeferred(locks, volumeID) == Release(locks, volumeID)

\* defer cs.operationLocks.ReleaseDeleteLock(volumeID)
ReleaseDeleteLock(ops, volumeID) == ops \ {<<"delete", volumeID>>}

\* Argument check, TryAcquire(volumeID), GetDeleteLock(volumeID).
DeleteVolumeBegin(h, req) ==
    /\ Free(h)
    /\ UNCHANGED <<volumes, nextID, snapshots>>
    /\ IF req.volume_id = ""
       THEN /\ Return(h, "DeleteVolume", req, Status("InvalidArgument"))
            /\ UNCHANGED <<volumeLocks, operationLocks>>
       ELSE IF ~DeleteVolumeLocked(TryAcquire(volumeLocks, req.volume_id))
       THEN /\ Return(h, "DeleteVolume", req, Status("Aborted"))
            /\ UNCHANGED <<volumeLocks, operationLocks>>
       ELSE IF ~GetDeleteLock(operationLocks, req.volume_id)
       THEN /\ Return(h, "DeleteVolume", req, Status("Aborted"))
            /\ volumeLocks' = DeleteVolumeDeferred(volumeLocks \cup {req.volume_id},
                                                   req.volume_id)
            /\ UNCHANGED operationLocks
       ELSE /\ Start(h, "DeleteVolume", req, "dv_delete")
            /\ volumeLocks' = volumeLocks \cup {req.volume_id}
            /\ operationLocks' = operationLocks \cup {<<"delete", req.volume_id>>}

\* connector.DeleteVolume, and the answer.
DeleteVolumeDelete(h) ==
    /\ rpc[h].pc = "dv_delete"
    /\ UNCHANGED snapshots
    /\ \E outcome \in DeleteOutcomes(rpc[h].req.volume_id) \cup {"error"} :
        /\ CloudDeleteVolume(rpc[h].req.volume_id, outcome)
        /\ rpc' = [rpc EXCEPT ![h].pc = "done", ![h].loc = [outcome |-> outcome],
                      ![h].calls = Append(@, "DeleteVolume"),
                      ![h].resp = IF DeleteVolumeError(outcome) \in {"", "NotFound"}
                                  THEN Status("OK") ELSE Status("Internal")]
        /\ volumeLocks' = DeleteVolumeDeferred(volumeLocks, rpc[h].req.volume_id)
        /\ operationLocks' = ReleaseDeleteLock(operationLocks, rpc[h].req.volume_id)

(***************************************************************************)
(* pkg/driver: ControllerPublishVolume.                                    *)
(***************************************************************************)
\* Argument checks.  No lock is taken.
ControllerPublishVolumeBegin(h, req) ==
    /\ Free(h)
    /\ UNCHANGED <<volumes, nextID, snapshots, volumeLocks, operationLocks>>
    /\ IF req.volume_id = "" \/ req.node_id = "" \/ req.readonly
          \/ req.cap = "" \/ req.cap # SINGLE_NODE_WRITER
       THEN Return(h, "ControllerPublishVolume", req, Status("InvalidArgument"))
       ELSE Start(h, "ControllerPublishVolume", req, "pv_getvol")

Finish(h, resp) ==
    rpc' = [rpc EXCEPT ![h].pc = "done", ![h].resp = resp]

\* A lookup that lets a volume attached to another node through.
ControllerPublishVolumeGetVolumeAnyNode(h) ==
    /\ rpc[h].pc = "pv_getvol"
    /\ UNCHANGED <<volumes, nextID, snapshots, volumeLocks, operationLocks>>
    /\ \E fault \in BOOLEAN :
        LET r == IF fault THEN CloudError ELSE GetVolumeByID(rpc[h].req.volume_id)
        IN  IF r.err = "NotFound" THEN Finish(h, Status("NotFound"))
            ELSE IF r.err # "" THEN Finish(h, Status("Internal"))
            ELSE rpc' = [rpc EXCEPT ![h].pc = "pv_getvm", ![h].loc = [vol |-> r.vol]]

\* GetVolumeByID, and the check that the volume is not attached elsewhere.
ControllerPublishVolumeGetVolume(h) ==
    /\ rpc[h].pc = "pv_getvol"
    /\ UNCHANGED <<volumes, nextID, snapshots, volumeLocks, operationLocks>>
    /\ \E fault \in BOOLEAN :
        LET r == IF fault THEN CloudError ELSE GetVolumeByID(rpc[h].req.volume_id)
        IN  IF r.err = "NotFound" THEN Finish(h, Status("NotFound"))
            ELSE IF r.err # "" THEN Finish(h, Status("Internal"))
            ELSE IF r.vol.VirtualMachineID # ""
                    /\ r.vol.VirtualMachineID # rpc[h].req.node_id
            THEN Finish(h, Status("AlreadyExists"))
            ELSE rpc' = [rpc EXCEPT ![h].pc = "pv_getvm", ![h].loc = [vol |-> r.vol]]

\* GetVMByID, and the answer for a volume already attached to the node.
ControllerPublishVolumeGetVM(h) ==
    /\ rpc[h].pc = "pv_getvm"
    /\ UNCHANGED <<volumes, nextID, snapshots, volumeLocks, operationLocks>>
    /\ \E fault \in BOOLEAN :
        LET r == IF fault THEN CloudError ELSE GetVMByID(rpc[h].req.node_id)
        IN  IF r.err = "NotFound" THEN Finish(h, Status("NotFound"))
            ELSE IF r.err # "" THEN Finish(h, Status("Internal"))
            ELSE IF rpc[h].loc.vol.VirtualMachineID = rpc[h].req.node_id
            THEN Finish(h, [code |-> "OK", deviceID |-> rpc[h].loc.vol.DeviceID])
            ELSE rpc' = [rpc EXCEPT ![h].pc = "pv_attach"]

\* connector.AttachVolume, and the answer.
ControllerPublishVolumeAttach(h) ==
    /\ rpc[h].pc = "pv_attach"
    /\ UNCHANGED <<snapshots, volumeLocks, operationLocks>>
    /\ \E fault \in {f \in BOOLEAN :
                        f \/ CanAttach(rpc[h].req.volume_id, rpc[h].req.node_id)} :
        IF fault
        THEN /\ rpc' = [rpc EXCEPT ![h].pc = "done", ![h].resp = Status("Internal"),
                                   ![h].calls = Append(@, "AttachVolume")]
             /\ UNCHANGED <<volumes, nextID>>
        ELSE /\ CloudAttachVolume(rpc[h].req.volume_id, rpc[h].req.node_id)
             /\ rpc' = [rpc EXCEPT ![h].pc = "done",
                                   ![h].resp = [code |-> "OK", deviceID |-> FormatInt(1)],
                                   ![h].calls = Append(@, "AttachVolume")]

(***************************************************************************)
(* pkg/driver: ControllerUnpublishVolume.                                  *)
(***************************************************************************)
\* Argument check.  No lock is taken.
ControllerUnpublishVolumeBegin(h, req) ==
    /\ Free(h)
    /\ UNCHANGED <<volumes, nextID, snapshots, volumeLocks, operationLocks>>
    /\ IF req.volume_id = ""
       THEN Return(h, "ControllerUnpublishVolume", req, Status("InvalidArgument"))
       ELSE Start(h, "ControllerUnpublishVolume", req, "uv_getvol")

\* GetVolumeByID, and the check that the volume is attached to the node.
ControllerUnpublishVolumeGetVolume(h) ==
    /\ rpc[h].pc = "uv_getvol"
    /\ UNCHANGED <<volumes, nextID, snapshots, volumeLocks, operationLocks>>
    /\ \E fault \in BOOLEAN :
        LET r == IF fault THEN CloudError ELSE GetVolumeByID(rpc[h].req.volume_id)
        IN  IF r.err = "NotFound" THEN Finish(h, Status("OK"))
            ELSE IF r.err # "" THEN Finish(h, Status("Internal"))
            ELSE IF rpc[h].req.node_id # ""
                    /\ r.vol.VirtualMachineID # rpc[h].req.node_id
            THEN Finish(h, Status("OK"))
            ELSE rpc' = [rpc EXCEPT ![h].pc = "uv_getvm", ![h].loc = [vol |-> r.vol]]

\* GetVMByID.
ControllerUnpublishVolumeGetVM(h) ==
    /\ rpc[h].pc = "uv_getvm"
    /\ UNCHANGED <<volumes, nextID, snapshots, volumeLocks, operationLocks>>
    /\ \E fault \in BOOLEAN :
        LET r == IF fault THEN CloudError ELSE GetVMByID(rpc[h].req.node_id)
        IN  IF r.err = "NotFound" THEN Finish(h, Status("OK"))
            ELSE IF r.err # "" THEN Finish(h, Status("Internal"))
            ELSE rpc' = [rpc EXCEPT ![h].pc = "uv_detach"]

\* connector.DetachVolume, and the answer.
ControllerUnpublishVolumeDetach(h) ==
    /\ rpc[h].pc = "uv_detach"
    /\ UNCHANGED <<snapshots, volumeLocks, operationLocks>>
    /\ \E fault \in {f \in BOOLEAN : f \/ CanDetach(rpc[h].req.volume_id)} :
        IF fault
        THEN /\ rpc' = [rpc EXCEPT ![h].pc = "done", ![h].resp = Status("Internal"),
                                   ![h].calls = Append(@, "DetachVolume")]
             /\ UNCHANGED <<volumes, nextID>>
        ELSE /\ CloudDetachVolume(rpc[h].req.volume_id)
             /\ rpc' = [rpc EXCEPT ![h].pc = "done", ![h].resp = Status("OK"),
                                   ![h].calls = Append(@, "DetachVolume")]

(***************************************************************************)
(* pkg/driver: ControllerExpandVolume.                                     *)
(***************************************************************************)
\* A handler that goes on whether or not TryAcquire succeeded.
ControllerExpandVolumeUnlocked(acquired) == TRUE

\* The handler goes on only with the lock acquired.
ControllerExpandVolumeLocked(acquired) == acquired

\* defer cs.volumeLocks.Release(volumeID)
ControllerExpandVolumeDeferred(locks, volumeID) == Release(locks, volumeID)

\* defer cs.operationLocks.ReleaseExpandLock(volumeID)
ReleaseExpandLock(ops, volumeID) == ops \ {<<"expand", volumeID>>}

ControllerExpandVolumeReturn(h, resp) ==
    /\ rpc' = [rpc EXCEPT ![h].pc = "done", ![h].resp = resp]
    /\ volumeLocks' = ControllerExpandVolumeDeferred(volumeLocks, rpc[h].req.volume_id)

\* A size check that passes every size.
ControllerExpandVolumeOverLimitNever(capRange) == FALSE

\* maxVolSize > 0 && maxVolSize < util.GigaBytesToBytes(volSizeGB)
ControllerExpandVolumeOverLimit(capRange) ==
    /\ capRange.limit > 0
    /\ capRange.limit < GigaBytesToBytes(RoundUpBytesToGB(capRange.required))

\* Argument checks, TryAcquire(volumeID), and the check of the size asked for.
ControllerExpandVolumeBegin(h, req) ==
    /\ Free(h)
    /\ UNCHANGED <<volumes, nextID, snapshots, operationLocks>>
    /\ IF req.volume_id = "" \/ ~req.range.present
       THEN /\ Return(h, "ControllerExpandVolume", req, Status("InvalidArgument"))
            /\ UNCHANGED volumeLocks
       ELSE IF ~ControllerExpandVolumeLocked(TryAcquire(volumeLocks, req.volume_id))
       THEN /\ Return(h, "ControllerExpandVolume", req, Status("Aborted"))
            /\ UNCHANGED volumeLocks
       ELSE IF ControllerExpandVolumeOverLimit(req.range)
       THEN /\ Return(h, "ControllerExpandVolume", req, Status("OutOfRange"))
            /\ volumeLocks' = ControllerExpandVolumeDeferred(
                                  volumeLocks \cup {req.volume_id}, req.volume_id)
       ELSE /\ Start(h, "ControllerExpandVolume", req, "ev_getvol")
            /\ volumeLocks' = volumeLocks \cup {req.volume_id}

\* GetVolumeByID, then GetExpandLock(volumeID).
ControllerExpandVolumeGetVolume(h) ==
    /\ rpc[h].pc = "ev_getvol"
    /\ UNCHANGED <<volumes, nextID, snapshots>>
    /\ \E fault \in BOOLEAN :
        LET r == IF fault THEN CloudError ELSE GetVolumeByID(rpc[h].req.volume_id)
        IN  IF r.err = "NotFound"
            THEN /\ ControllerExpandVolumeReturn(h, Status("NotFound"))
                 /\ UNCHANGED operationLocks
            ELSE IF r.err # ""
            THEN /\ ControllerExpandVolumeReturn(h, Status("Internal"))
                 /\ UNCHANGED operationLocks
            ELSE IF ~GetExpandLock(operationLocks, rpc[h].req.volume_id)
            THEN /\ ControllerExpandVolumeReturn(h, Status("Aborted"))
                 /\ UNCHANGED operationLocks
            ELSE /\ rpc' = [rpc EXCEPT ![h].pc = "ev_expand"]
                 /\ operationLocks' = operationLocks \cup {<<"expand", rpc[h].req.volume_id>>}
                 /\ UNCHANGED volumeLocks

\* connector.ExpandVolume, and the answer.
ControllerExpandVolumeExpand(h) ==
    /\ rpc[h].pc = "ev_expand"
    /\ UNCHANGED snapshots
    /\ \E fault \in {f \in BOOLEAN :
                        f \/ GetVolumeByID(rpc[h].req.volume_id).err = ""} :
        LET volSizeGB == RoundUpBytesToGB(rpc[h].req.range.required)
        IN  /\ IF fault THEN UNCHANGED <<volumes, nextID>>
               ELSE CloudExpandVolume(rpc[h].req.volume_id, volSizeGB)
            /\ rpc' = [rpc EXCEPT ![h].pc = "done",
                          ![h].calls = Append(@, "ExpandVolume"),
                          ![h].resp = IF fault THEN Status("Internal")
                                      ELSE [code |-> "OK",
                                            CapacityBytes |-> GigaBytesToBytes(volSizeGB)]]
            /\ volumeLocks' = ControllerExpandVolumeDeferred(volumeLocks,
                                                             rpc[h].req.volume_id)
            /\ operationLocks' = ReleaseExpandLock(operationLocks, rpc[h].req.volume_id)

(***************************************************************************)
(* pkg/driver: ValidateVolumeCapabilities.                                 *)
(***************************************************************************)
\* Argument checks.
ValidateVolumeCapabilitiesBegin(h, req) ==
    /\ Free(h)
    /\ UNCHANGED <<volumes, nextID, snapshots, volumeLocks, operationLocks>>
    /\ IF req.volume_id = "" \/ Len(req.caps) = 0
       THEN Return(h, "ValidateVolumeCapabilities", req, Status("InvalidArgument"))
       ELSE Start(h, "ValidateVolumeCapabilities", req, "vc_getvol")

\* GetVolumeByID, and the answer: a Message, or the Confirmed capabilities.
ValidateVolumeCapabilitiesGetVolume(h) ==
    /\ rpc[h].pc = "vc_getvol"
    /\ UNCHANGED <<volumes, nextID, snapshots, volumeLocks, operationLocks>>
    /\ \E fault \in BOOLEAN :
        LET r == IF fault THEN CloudError ELSE GetVolumeByID(rpc[h].req.volume_id)
        IN  IF r.err = "NotFound" THEN Finish(h, Status("NotFound"))
            ELSE IF r.err # "" THEN Finish(h, Status("Internal"))
            ELSE IF ~isValidVolumeCapabilities(rpc[h].req.caps)
            THEN Finish(h, [code |-> "OK",
                            Message |-> "Requested VolumeCapabilities are invalid",
                            Confirmed |-> <<>>])
            ELSE Finish(h, [code |-> "OK", Message |-> "",
                            Confirmed |-> <<rpc[h].req.caps>>])

(***************************************************************************)
(* pkg/cloud: snapshots.                                                   *)
(***************************************************************************)
Live(snapshotID) ==
    snapshotID \in SnapshotIDs /\ snapshots[snapshotID] \notin {NoSnap, DeletedSnap}

\* The Snapshot the connector builds from a CreateSnapshot answer or from one
\* element of a ListSnapshots answer.
ToSnapshot(snap) ==
    [ID |-> snap.id, Name |-> snap.name, Size |-> snap.size, ZoneID |-> snap.zone,
     VolumeID |-> snap.volume, CreatedAt |-> snap.created]

\* connector.ListSnapshots: the snapshots with the ID and of the volume asked
\* for, in the order the cloud lists them.
ListedSnapshots(volumeID, snapshotID) ==
    LET Asked(id) == /\ Live(id)
                     /\ snapshotID = "" \/ id = snapshotID
                     /\ volumeID = "" \/ snapshots[id].volume = volumeID
        ids == SelectSeq([i \in 1..MaxSnapshots |-> AllSnapshotIDs[i]], Asked)
    IN  [i \in 1..Len(ids) |-> ToSnapshot(snapshots[ids[i]])]

\* The cloud has a snapshot ID left to hand out.
CanCreateSnapshot == \E id \in SnapshotIDs : snapshots[id] = NoSnap

NextSnapshotID ==
    AllSnapshotIDs[CHOOSE i \in 1..MaxSnapshots :
                      /\ snapshots[AllSnapshotIDs[i]] = NoSnap
                      /\ \A j \in 1..(i - 1) : snapshots[AllSnapshotIDs[j]] # NoSnap]

\* The name is the name of a snapshot of another volume.
NameTaken(volumeID, name) ==
    \E id \in SnapshotIDs :
        Live(id) /\ snapshots[id].name = name /\ snapshots[id].volume # volumeID

\* What connector.CreateSnapshot may answer.  The CloudStack client sends the
\* call whatever the name and answers with the snapshot or with the error of
\* the call; the fake connector answers ErrAlreadyExists for a name taken by a
\* snapshot of another volume.
CreateSnapshotOutcomes(volumeID, name) ==
    {"error"}
    \cup (IF CanCreateSnapshot THEN {"created"} ELSE {})
    \cup (IF NameTaken(volumeID, name) THEN {"AlreadyExists"} ELSE {})

CloudCreateSnapshot(volumeID, name, created) ==
    snapshots' = [snapshots EXCEPT ![NextSnapshotID] =
                     [id |-> NextSnapshotID, name |-> name, volume |-> volumeID,
                      size |-> volumes[volumeID].size, zone |-> volumes[volumeID].zone,
                      project |-> "", created |-> created]]

\* What the cloud may answer to DeleteSnapshot: it removes a snapshot it has
\* and answers with error 4350 for one it does not have.
DeleteSnapshotOutcomes(snapshotID) == IF Live(snapshotID) THEN {"ok"} ELSE {"4350"}

\* A client that passes error 4350 on as it is.
DeleteSnapshotErrorOpaque(outcome) == IF outcome = "ok" THEN "" ELSE "error"

\* client.DeleteSnapshot: error 4350 becomes ErrNotFound.
DeleteSnapshotError(outcome) ==
    IF outcome = "4350" THEN "NotFound" ELSE IF outcome = "ok" THEN "" ELSE "error"

CloudDeleteSnapshot(snapshotID, outcome) ==
    snapshots' = IF outcome = "ok" THEN [snapshots EXCEPT ![snapshotID] = DeletedSnap]
                 ELSE snapshots

(***************************************************************************)
(* Conversions of the snapshot RPCs.                                       *)
(***************************************************************************)
\* The offsets from UTC that the layout "2006-01-02T15:04:05-0700" takes, in
\* minutes.
OffsetMinutes == [x \in {"-0700", "+0000", "+0530"} |->
                    IF x = "-0700" THEN 0 - 420 ELSE IF x = "+0000" THEN 0 ELSE 330]

ZeroTime == <<"0001-01-01T00:00:00", 0>>

\* time.Parse with that layout: the time, or an error and the zero time.
ParseTime(createdAt) ==
    IF createdAt[2] \in DOMAIN OffsetMinutes
    THEN [err |-> FALSE, t |-> <<createdAt[1], OffsetMinutes[createdAt[2]]>>]
    ELSE [err |-> TRUE, t |-> ZeroTime]

Digits == <<"0", "1", "2", "3", "4", "5">>

\* strconv.Itoa for the numbers of the model.
Itoa(n) == Digits[n + 1]

\* strconv.Atoi: a decimal number with or without a sign, or an error.
Atoi(str) ==
    IF \E n \in 0..(Len(Digits) - 1) : Digits[n + 1] = str
    THEN [err |-> FALSE, n |-> CHOOSE n \in 0..(Len(Digits) - 1) : Digits[n + 1] = str]
    ELSE IF str = "+1" THEN [err |-> FALSE, n |-> 1]
    ELSE IF str = "-1" THEN [err |-> FALSE, n |-> 0 - 1]
    ELSE [err |-> TRUE, n |-> 0]

(***************************************************************************)
(* pkg/driver: CreateSnapshot, ListSnapshots, DeleteSnapshot.              *)
(***************************************************************************)
\* Argument checks.
CreateSnapshotBegin(h, req) ==
    /\ Free(h)
    /\ UNCHANGED <<volumes, nextID, snapshots, volumeLocks, operationLocks>>
    /\ IF req.name = "" \/ req.source_volume_id = ""
       THEN Return(h, "CreateSnapshot", req, Status("InvalidArgument"))
       ELSE Start(h, "CreateSnapshot", req, "cs_getvol")

\* GetVolumeByID of the source volume.
CreateSnapshotGetVolume(h) ==
    /\ rpc[h].pc = "cs_getvol"
    /\ UNCHANGED <<volumes, nextID, snapshots, volumeLocks, operationLocks>>
    /\ \E fault \in BOOLEAN :
        LET r == IF fault THEN CloudError ELSE GetVolumeByID(rpc[h].req.source_volume_id)
        IN  IF r.err = "NotFound" THEN Finish(h, Status("NotFound"))
            ELSE IF r.err # "" THEN Finish(h, Status("Internal"))
            ELSE rpc' = [rpc EXCEPT ![h].pc = "cs_create", ![h].loc = [vol |-> r.vol]]

\* The response for a snapshot the connector answered with.
CreateSnapshotResponse(snapshotID, volumeID, createdAt) ==
    IF ParseTime(createdAt).err THEN Status("Internal")
    ELSE [code |-> "OK", SnapshotId |-> snapshotID, SourceVolumeId |-> volumeID,
          CreationTime |-> ParseTime(createdAt).t, ReadyToUse |-> TRUE]

\* connector.CreateSnapshot, and the answer.
CreateSnapshotCreate(h) ==
    /\ rpc[h].pc = "cs_create"
    /\ UNCHANGED <<volumes, nextID, volumeLocks, operationLocks>>
    /\ \E outcome \in CreateSnapshotOutcomes(rpc[h].loc.vol.ID, rpc[h].req.name) :
       \E created \in CreatedAts :
        IF outcome = "created"
        THEN /\ CloudCreateSnapshot(rpc[h].loc.vol.ID, rpc[h].req.name, created)
             /\ rpc' = [rpc EXCEPT ![h].pc = "done",
                           ![h].calls = Append(@, "CreateSnapshot"),
                           ![h].resp = CreateSnapshotResponse(NextSnapshotID,
                                           rpc[h].loc.vol.ID, created)]
        ELSE /\ UNCHANGED snapshots
             /\ rpc' = [rpc EXCEPT ![h].pc = "done",
                           ![h].calls = Append(@, "CreateSnapshot"),
                           ![h].resp = IF outcome = "AlreadyExists"
                                       THEN Status("AlreadyExists")
                                       ELSE Status("Internal")]

\* One entry of a page.  The error of time.Parse is dropped.
ListSnapshotsEntry(snap) ==
    [SnapshotId |-> snap.ID, SourceVolumeId |-> snap.VolumeID,
     CreationTime |-> ParseTime(snap.CreatedAt).t, ReadyToUse |-> TRUE]

\* A page whose next_token is set also when the page ends the answer.
ListSnapshotsPageTokenAtEnd(snaps, startingToken, maxEntries) ==
    LET start == IF startingToken = "" THEN 0 ELSE Atoi(startingToken).n
        end == IF maxEntries > 0 /\ start + maxEntries < Len(snaps)
               THEN start + maxEntries ELSE Len(snaps)
    IN  IF startingToken # ""
           /\ (Atoi(startingToken).err \/ start < 0 \/ start > Len(snaps))
        THEN Status("Aborted")
        ELSE [code |-> "OK",
              entries |-> [i \in 1..(end - start) |-> ListSnapshotsEntry(snaps[start + i])],
              next_token |-> IF end <= Len(snaps) THEN Itoa(end) ELSE ""]

\* The page of the connector's answer that the token and max_entries ask for.
ListSnapshotsPage(snaps, startingToken, maxEntries) ==
    LET start == IF startingToken = "" THEN 0 ELSE Atoi(startingToken).n
        end == IF maxEntries > 0 /\ start + maxEntries < Len(snaps)
               THEN start + maxEntries ELSE Len(snaps)
    IN  IF startingToken # ""
           /\ (Atoi(startingToken).err \/ start < 0 \/ start > Len(snaps))
        THEN Status("Aborted")
        ELSE [code |-> "OK",
              entries |-> [i \in 1..(end - start) |-> ListSnapshotsEntry(snaps[start + i])],
              next_token |-> IF end < Len(snaps) THEN Itoa(end) ELSE ""]

\* ListSnapshots: one call of connector.ListSnapshots, then the page.
ListSnapshots(h, req) ==
    /\ Free(h)
    /\ UNCHANGED <<volumes, nextID, snapshots, volumeLocks, operationLocks>>
    /\ \E fault \in BOOLEAN :
        IF fault THEN Return(h, "ListSnapshots", req, Status("Internal"))
        ELSE Return(h, "ListSnapshots", req,
                    ListSnapshotsPage(ListedSnapshots(req.source_volume_id,
                                                      req.snapshot_id),
                                      req.starting_token, req.max_entries))

\* Argument check.
DeleteSnapshotBegin(h, req) ==
    /\ Free(h)
    /\ UNCHANGED <<volumes, nextID, snapshots, volumeLocks, operationLocks>>
    /\ IF req.snapshot_id = ""
       THEN Return(h, "DeleteSnapshot", req, Status("InvalidArgument"))
       ELSE Start(h, "DeleteSnapshot", req, "ds_delete")

\* connector.DeleteSnapshot, and the answer.
DeleteSnapshotDelete(h) ==
    /\ rpc[h].pc = "ds_delete"
    /\ UNCHANGED <<volumes, nextID, volumeLocks, operationLocks>>
    /\ \E outcome \in DeleteSnapshotOutcomes(rpc[h].req.snapshot_id) \cup {"error"} :
        /\ CloudDeleteSnapshot(rpc[h].req.snapshot_id, outcome)
        /\ rpc' = [rpc EXCEPT ![h].pc = "done", ![h].loc = [outcome |-> outcome],
                      ![h].calls = Append(@, "DeleteSnapshot"),
                      ![h].resp = IF DeleteSnapshotError(outcome) \in {"", "NotFound"}
                                  THEN Status("OK") ELSE Status("Internal")]

(***************************************************************************)
(* pkg/mount: the serial of a disk.  A string is the sequence of its       *)
(* characters.                                                             *)
(***************************************************************************)
\* The length a serial is cut to.
SerialLength == 20

\* A serial cut to the length before the hyphens are removed.
diskUUIDToSerialCutFirst(uuid) ==
    LET NotHyphen(c) == c # "-"
    IN  IF Len(uuid) < SerialLength THEN SelectSeq(uuid, NotHyphen)
        ELSE SelectSeq(SubSeq(uuid, 1, SerialLength), NotHyphen)

diskUUIDToSerial(uuid) ==
    LET NotHyphen(c) == c # "-"
        uuidWithoutHyphen == SelectSeq(uuid, NotHyphen)
    IN  IF Len(uuidWithoutHyphen) < SerialLength THEN uuidWithoutHyphen
        ELSE SubSeq(uuidWithoutHyphen, 1, SerialLength)

(***************************************************************************)
(* pkg/mount: the device of a volume on the node.  A path is the tuple of  *)
(* the parts it is made of; the file system gives each path its state.     *)
(***************************************************************************)
\* The number of device letters, from b on, that the node has devices for.
MaxLetters == 2

AllLetters == <<"b", "c", "d", "e", "f", "g", "h", "i", "j", "k", "l", "m", "n", "o",
                "p", "q", "r", "s", "t", "u", "v", "w", "x", "y", "z">>

diskIDPath == "/dev/disk/by-id"

sourcePathPrefixes == <<"virtio-", "scsi-", "scsi-0QEMU_QEMU_HARDDISK_">>

\* fmt.Sprintf("/dev/xvd%c", i) and fmt.Sprintf("/dev/sd%c", i)
DevicePath(dir, i) == <<dir, AllLetters[i]>>

\* filepath.Join(diskIDPath, prefix+serial)
SourcePath(prefix, serial) == <<diskIDPath, prefix, serial>>

\* What a device path is: nothing, a file that is no block device, a block
\* device that blockdev cannot read the size of, one that is mounted, one
\* that udevadm has no properties of, or a block device that is none of these.
DeviceStates == {"absent", "file", "nosize", "mounted", "noprops", "free"}

\* What os.Stat of a path under /dev/disk/by-id gives: not-exist, the file,
\* or another error.
SourceStates == {"absent", "present", "error"}

DevicePaths == {DevicePath(dir, i) : dir \in {"/dev/xvd", "/dev/sd"}, i \in 1..MaxLetters}

SourcePaths(serial) == {SourcePath(sourcePathPrefixes[i], serial) : i \in 1..3}

\* GetBlockSizeBytes, isDeviceMounted and getDeviceProperties all succeed and
\* the device is not mounted.
verifyDevice(fs, devicePath) ==
    /\ fs[devicePath] # "nosize"
    /\ fs[devicePath] # "mounted"
    /\ fs[devicePath] # "noprops"

\* os.Stat succeeds, IsBlockDevice says yes, and the device is verified.
Passes(fs, devicePath) ==
    /\ fs[devicePath] # "absent"
    /\ fs[devicePath] # "file"
    /\ verifyDevice(fs, devicePath)

\* getDevicePathForXenServer (dir /dev/xvd) and getDevicePathForVMware (dir
\* /dev/sd): the first letter whose device passes.
getDevicePathFor(fs, dir) ==
    IF \E i \in 1..MaxLetters : Passes(fs, DevicePath(dir, i))
    THEN [path |-> DevicePath(dir, CHOOSE i \in 1..MaxLetters :
                                      /\ Passes(fs, DevicePath(dir, i))
                                      /\ \A j \in 1..(i - 1) : ~Passes(fs, DevicePath(dir, j))),
          err |-> FALSE]
    ELSE [path |-> <<>>, err |-> TRUE]

\* The loop over sourcePathPrefixes, from the i-th on.
RECURSIVE statSourcePaths(_, _, _)
statSourcePaths(fs, serial, i) ==
    IF i > Len(sourcePathPrefixes) THEN [path |-> <<>>, err |-> FALSE]
    ELSE IF fs[SourcePath(sourcePathPrefixes[i], serial)] = "present"
    THEN [path |-> SourcePath(sourcePathPrefixes[i], serial), err |-> FALSE]
    ELSE IF fs[SourcePath(sourcePathPrefixes[i], serial)] = "error"
    THEN [path |-> <<>>, err |-> TRUE]
    ELSE statSourcePaths(fs, serial, i + 1)

\* The empty path <<>> is the empty string.
getDevicePathBySerialID(fs, volumeID) ==
    IF getDevicePathFor(fs, "/dev/xvd").path # <<>>
    THEN [path |-> getDevicePathFor(fs, "/dev/xvd").path, err |-> FALSE]
    ELSE IF getDevicePathFor(fs, "/dev/sd").path # <<>>
    THEN [path |-> getDevicePathFor(fs, "/dev/sd").path, err |-> FALSE]
    ELSE statSourcePaths(fs, diskUUIDToSerial(volumeID), 1)

\* wait.Backoff{Steps: 20}: the number of attempts.
Steps == 20

\* A result that hands on the path of the last attempt when the wait was not
\* interrupted.
GetDevicePathResultUnchecked(err, devicePath) ==
    IF err = "interrupted"
    THEN [path |-> <<>>, err |-> "failed to find device within the alloted time"]
    ELSE [path |-> devicePath, err |-> ""]

\* What GetDevicePath returns for the error of the wait and the path found.
GetDevicePathResult(err, devicePath) ==
    IF err = "interrupted"
    THEN [path |-> <<>>, err |-> "failed to find device within the alloted time"]
    ELSE IF devicePath = <<>>
    THEN [path |-> <<>>, err |-> "device path was empty"]
    ELSE [path |-> devicePath, err |-> ""]

GetDevicePathBegin(h, volumeID) ==
    /\ Free(h)
    /\ UNCHANGED <<volumes, nextID, snapshots, volumeLocks, operationLocks>>
    /\ rpc' = [rpc EXCEPT ![h] = [kind |-> "GetDevicePath", pc |-> "gd_attempt",
                                  req |-> [volumeID |-> volumeID],
                                  loc |-> [steps |-> Steps], calls |-> <<>>,
                                  resp |-> NoResp]]

\* One round of the backoff loop: the context is looked at, then the
\* condition runs: an attempt on the file system as it is now and, with no
\* device found, probeVolume (the SCSI hosts are told to scan, then udevadm
\* trigger runs).  The loop ends with the last step.
GetDevicePathAttempt(h, fss) ==
    /\ rpc[h].pc = "gd_attempt"
    /\ UNCHANGED <<volumes, nextID, snapshots, volumeLocks, operationLocks>>
    /\ \E ctxDone \in BOOLEAN : \E fs \in fss :
        LET r == getDevicePathBySerialID(fs, rpc[h].req.volumeID)
        IN  IF ctxDone
            THEN rpc' = [rpc EXCEPT ![h].pc = "done",
                            ![h].resp = GetDevicePathResult("interrupted", <<>>)]
            ELSE IF r.err
            THEN rpc' = [rpc EXCEPT ![h].pc = "done",
                            ![h].calls = Append(@, "attempt"),
                            ![h].resp = GetDevicePathResult("stat", <<>>)]
            ELSE IF r.path # <<>>
            THEN rpc' = [rpc EXCEPT ![h].pc = "done",
                            ![h].calls = Append(@, "attempt"),
                            ![h].resp = GetDevicePathResult("", r.path)]
            ELSE IF rpc[h].loc.steps = 1
            THEN rpc' = [rpc EXCEPT ![h].pc = "done",
                            ![h].calls = @ \o <<"attempt", "scan", "udevadm trigger">>,
                            ![h].resp = GetDevicePathResult("interrupted", <<>>)]
            ELSE rpc' = [rpc EXCEPT ![h].pc = "gd_wait",
                            ![h].calls = @ \o <<"attempt", "scan", "udevadm trigger">>,
                            ![h].loc = [steps |-> rpc[h].loc.steps - 1]]

\* The wait before the next round, which the context may end.
GetDevicePathWait(h) ==
    /\ rpc[h].pc = "gd_wait"
    /\ UNCHANGED <<volumes, nextID, snapshots, volumeLocks, operationLocks>>
    /\ \E ctxDone \in BOOLEAN :
        IF ctxDone
        THEN rpc' = [rpc EXCEPT ![h].pc = "done",
                        ![h].resp = GetDevicePathResult("interrupted", <<>>)]
        ELSE rpc' = [rpc EXCEPT ![h].pc = "gd_attempt"]

(***************************************************************************)
(* The requests the tasks make, and the specifications.                    *)
(***************************************************************************)
CreateVolumeRequest(name, offering, range, requisite, snapshot) ==
    [name |-> name, caps |-> <<SINGLE_NODE_WRITER>>, offering |-> offering,
     range |-> range, requisite |-> requisite, snapshot |-> snapshot]

PublishRequest(volume_id, node_id) ==
    [volume_id |-> volume_id, node_id |-> node_id, readonly |-> FALSE,
     cap |-> SINGLE_NODE_WRITER]

\* One step of task h, its new requests drawn from the given sets.
Step(h, creates, deletes, publishes, unpublishes, expands) ==
    \/ \E req \in creates : CreateVolumeBegin(h, req)
    \/ CreateVolumeLookup(h)
    \/ CreateVolumeGetSnapshot(h)
    \/ CreateVolumeFromSnapshot(h)
    \/ CreateVolumeListZones(h)
    \/ CreateVolumeCreate(h)
    \/ \E req \in deletes : DeleteVolumeBegin(h, req)
    \/ DeleteVolumeDelete(h)
    \/ \E req \in publishes : ControllerPublishVolumeBegin(h, req)
    \/ ControllerPublishVolumeGetVolume(h)
    \/ ControllerPublishVolumeGetVM(h)
    \/ ControllerPublishVolumeAttach(h)
    \/ \E req \in unpublishes : ControllerUnpublishVolumeBegin(h, req)
    \/ ControllerUnpublishVolumeGetVolume(h)
    \/ ControllerUnpublishVolumeGetVM(h)
    \/ ControllerUnpublishVolumeDetach(h)
    \/ \E req \in expands : ControllerExpandVolumeBegin(h, req)
    \/ ControllerExpandVolumeGetVolume(h)
    \/ ControllerExpandVolumeExpand(h)

\* Concurrent tasks, contending for the name n1 and for the volume with ID v1.
CreateRequests ==
    {CreateVolumeRequest("n1", "o1", NoRange, <<Segment("z1")>>, ""),
     CreateVolumeRequest("n1", "o2", Range(GiB + 1, 0), <<>>, ""),
     CreateVolumeRequest("n1", "o1", Range(1, GiB), <<>>, "s1"),
     CreateVolumeRequest("n2", "o1", NoRange, <<Segment("z2")>>, "")}

DeleteRequests == [volume_id : {"v1", "v2", "n1"}]

PublishRequests == {PublishRequest("v1", "vm1")}

UnpublishRequests == [volume_id : {"v1"}, node_id : {"vm1"}]

ExpandRequests == [volume_id : {"v1", "n1"}, range : {Range(GiB + 1, 0)}]

Next ==
    \E h \in Handlers :
        Step(h, CreateRequests, DeleteRequests, PublishRequests, UnpublishRequests,
             ExpandRequests)

Spec == Init /\ [][Next]_vars

(***************************************************************************)
(* One task making every kind of request, the invalid ones included.       *)
(***************************************************************************)
\* Capacity range, requisite topology and snapshot of the CreateVolume requests.
SeqShapes ==
    {<<NoRange, <<Segment("z1")>>, "">>,
     <<Range(0, 0), <<Segment("z2")>>, "">>,
     <<Range(1, GiB), <<>>, "">>,
     <<Range(GiB + 1, 0), <<Segment("z1")>>, "">>,
     <<Range(GiB, 2 * GiB), <<Segment("z1")>>, "">>,
     <<Range(GiB + 1, GiB + 1), <<>>, "">>,
     <<NoRange, <<Segment("z1"), Segment("z2")>>, "">>,
     <<NoRange, <<HostOnlySegment>>, "">>,
     <<Range(1, GiB), <<>>, "s1">>,
     <<NoRange, <<Segment("z1"), Segment("z2")>>, "s1">>,
     <<NoRange, <<Segment("z2")>>, "s1">>,
     <<NoRange, <<>>, "s0">>}

SeqCreateRequests ==
    {CreateVolumeRequest(name, offering, shape[1], shape[2], shape[3]) :
        name \in Names, offering \in Offerings, shape \in SeqShapes}
    \cup {CreateVolumeRequest("", "o1", NoRange, <<>>, ""),
          CreateVolumeRequest("n1", "", NoRange, <<>>, ""),
          [CreateVolumeRequest("n1", "o1", NoRange, <<>>, "") EXCEPT !.caps = <<>>],
          [CreateVolumeRequest("n1", "o1", NoRange, <<>>, "")
              EXCEPT !.caps = <<MULTI_NODE_MULTI_WRITER>>],
          [CreateVolumeRequest("n1", "o1", NoRange, <<>>, "")
              EXCEPT !.caps = <<SINGLE_NODE_WRITER, NilAccessMode>>]}

SeqDeleteRequests == [volume_id : {"v1", "v2", ""}]

SeqPublishRequests ==
    {PublishRequest(volume_id, node_id) :
        volume_id \in {"v1", ""}, node_id \in {"vm1", "vm0", ""}}
    \cup {PublishRequest("v1", "vm2"),
          [PublishRequest("v1", "vm1") EXCEPT !.readonly = TRUE],
          [PublishRequest("v1", "vm1") EXCEPT !.cap = MULTI_NODE_MULTI_WRITER],
          [PublishRequest("v1", "vm1") EXCEPT !.cap = NilAccessMode]}

SeqUnpublishRequests == [volume_id : {"v1", ""}, node_id : {"vm1", "vm0", ""}]

SeqExpandRequests ==
    [volume_id : {"v1", ""},
     range : {NoRange, Range(2 * GiB + 1, 0), Range(GiB + 1, GiB),
              Range(GiB + 1, 2 * GiB)}]

SeqValidateRequests ==
    [volume_id : {"v1", ""},
     caps : {<<>>, <<SINGLE_NODE_WRITER>>, <<MULTI_NODE_MULTI_WRITER>>, <<NilAccessMode>>,
             <<SINGLE_NODE_WRITER, NilAccessMode>>}]

NextSeq ==
    \/ Step("h1", SeqCreateRequests, SeqDeleteRequests, SeqPublishRequests,
            SeqUnpublishRequests, SeqExpandRequests)
    \/ \E req \in SeqValidateRequests : ValidateVolumeCapabilitiesBegin("h1", req)
    \/ ValidateVolumeCapabilitiesGetVolume("h1")

SpecSeq == Init /\ [][NextSeq]_vars

(***************************************************************************)
(* determineSize on its own: the task holds a capacity range, then the     *)
(* answer to it.                                                           *)
(***************************************************************************)
\* The largest size asked for, in GiB.
MaxSizeGB == 4

SizeBytes == 0..(MaxSizeGB * GiB + 1)

CapacityRanges == {NoRange} \cup {Range(required, limit) : required \in SizeBytes,
                                                            limit \in SizeBytes}

InitSize ==
    /\ volumes = [id \in VolumeIDs |-> NoVol]
    /\ nextID = 1
    /\ snapshots = [id \in SnapshotIDs |-> NoSnap]
    /\ volumeLocks = {}
    /\ operationLocks = {}
    /\ \E capRange \in CapacityRanges :
          rpc = [h \in Handlers |->
                   IF h = "h1"
                   THEN [Idle EXCEPT !.kind = "determineSize",
                                     !.req = [range |-> capRange]]
                   ELSE Idle]

determineSizeCall(h) ==
    /\ rpc[h].kind = "determineSize"
    /\ rpc[h].pc = "idle"
    /\ rpc' = [rpc EXCEPT ![h].pc = "done", ![h].resp = determineSize(rpc[h].req.range)]
    /\ UNCHANGED <<volumes, nextID, snapshots, volumeLocks, operationLocks>>

NextSize == determineSizeCall("h1")

SpecSize == InitSize /\ [][NextSize]_vars

(***************************************************************************)
(* The snapshot RPCs of one task, over two volumes and their snapshots.    *)
(***************************************************************************)
CreateSnapshotRequests == [name : SnapshotNames \cup {""}, source_volume_id : {"", "v1", "v2", "v9"}]

DeleteSnapshotRequests == [snapshot_id : {"", "s1", "s2", "s9"}]

ListSnapshotsRequest(volumeID, snapshotID, startingToken, maxEntries) ==
    [source_volume_id |-> volumeID, snapshot_id |-> snapshotID,
     starting_token |-> startingToken, max_entries |-> maxEntries]

SnapListRequests ==
    {ListSnapshotsRequest(v, i, "", 0) : v \in {"", "v1"}, i \in {"", "s1", "s9"}}

InitSnap ==
    /\ volumes = [id \in VolumeIDs |->
                    [id |-> id, name |-> IF id = "v1" THEN "n1" ELSE "n2", size |-> GiB,
                     offering |-> "o1", zone |-> "z1", vmid |-> "", deviceid |-> 0]]
    /\ nextID = MaxVolumes + 1
    /\ snapshots = [id \in SnapshotIDs |->
                      IF id = "s1"
                      THEN [id |-> id, name |-> "sn1", volume |-> "v1", size |-> GiB,
                            zone |-> "z1", project |-> "",
                            created |-> <<"2025-07-07T16:13:06", "-0700">>]
                      ELSE NoSnap]
    /\ volumeLocks = {}
    /\ operationLocks = {}
    /\ rpc = [h \in Handlers |-> Idle]

NextSnap ==
    \/ \E req \in CreateSnapshotRequests : CreateSnapshotBegin("h1", req)
    \/ CreateSnapshotGetVolume("h1")
    \/ CreateSnapshotCreate("h1")
    \/ \E req \in SnapListRequests : ListSnapshots("h1", req)
    \/ \E req \in DeleteSnapshotRequests : DeleteSnapshotBegin("h1", req)
    \/ DeleteSnapshotDelete("h1")

SpecSnap == InitSnap /\ [][NextSnap]_vars

(***************************************************************************)
(* ListSnapshots over a store that does not change: a first call, then     *)
(* calls with the next_token of the page before.                           *)
(***************************************************************************)
MaxEntries == 3

StartingTokens == {"", "0", "2", "3", "4", "+1", "-1", "x"}

ListRequests ==
    {ListSnapshotsRequest(v, i, t, m) :
        v \in {"", "v1"}, i \in {"", "s2"}, t \in StartingTokens, m \in 0..MaxEntries}

\* The stores: each snapshot ID is not in use, or is a snapshot of v1 or v2.
InitList ==
    /\ volumes = [id \in VolumeIDs |-> NoVol]
    /\ nextID = 1
    /\ \E source \in [SnapshotIDs -> {"", "v1", "v2"}] :
       \E created \in CreatedAts :
          snapshots = [id \in SnapshotIDs |->
                         IF source[id] = "" THEN NoSnap
                         ELSE [id |-> id, name |-> "sn1", volume |-> source[id],
                               size |-> GiB, zone |-> "z1", project |-> "",
                               created |-> IF id = "s1" THEN created
                                           ELSE <<"2025-07-07T16:13:06", "-0700">>]]
    /\ volumeLocks = {}
    /\ operationLocks = {}
    /\ rpc = [h \in Handlers |-> Idle]

\* The pages of the walk that task h is on, before the page it has now.
Pages(h) == IF rpc[h].loc = NoLoc THEN <<>> ELSE rpc[h].loc.pages

\* The caller asks for the page after the one it has.
ListSnapshotsFollow(h) ==
    /\ rpc[h].kind = "ListSnapshots" /\ rpc[h].pc = "done"
    /\ rpc[h].resp.code = "OK"
    /\ rpc[h].resp.next_token # ""
    /\ rpc[h].req.starting_token = "" \/ rpc[h].loc # NoLoc
    /\ UNCHANGED <<volumes, nextID, snapshots, volumeLocks, operationLocks>>
    /\ LET req == [rpc[h].req EXCEPT !.starting_token = rpc[h].resp.next_token]
       IN  rpc' = [rpc EXCEPT ![h].req = req,
                      ![h].loc = [pages |-> Pages(h) \o rpc[h].resp.entries],
                      ![h].resp = ListSnapshotsPage(
                                      ListedSnapshots(req.source_volume_id, req.snapshot_id),
                                      req.starting_token, req.max_entries)]

NextList ==
    \/ \E req \in ListRequests : ListSnapshots("h1", req)
    \/ ListSnapshotsFollow("h1")

SpecList == InitList /\ [][NextList]_vars

(***************************************************************************)
(* The topology conversions alone: ToCSI and NewTopology of its result,    *)
(* and NewTopology of the segments of a request.                           *)
(***************************************************************************)
TopologyZones == Zones \cup {"", "z3"}
TopologyHosts == {"", "host1", "host2", "host3"}
Topologies == [ZoneID : TopologyZones, HostID : TopologyHosts]

\* Segments maps: each of the zone key, the host key and another key is
\* absent or has a value.
SegmentValues == {"absent", "", "a", "b"}
SegmentsOf(zone, host, other) ==
    [k \in (IF zone = "absent" THEN {} ELSE {ZoneKey})
            \cup (IF host = "absent" THEN {} ELSE {HostKey})
            \cup (IF other = "absent" THEN {} ELSE {"kubernetes.io/hostname"}) |->
        IF k = ZoneKey THEN zone ELSE IF k = HostKey THEN host ELSE other]
SegmentsMaps ==
    {NilSegments} \cup {SegmentsOf(z, ho, o) : z \in SegmentValues, ho \in SegmentValues,
                                                o \in SegmentValues}

InitTopology ==
    /\ volumes = [id \in VolumeIDs |-> NoVol]
    /\ nextID = 1
    /\ snapshots = [id \in SnapshotIDs |-> NoSnap]
    /\ volumeLocks = {}
    /\ operationLocks = {}
    /\ \/ \E t \in Topologies :
             rpc = [h \in Handlers |->
                      IF h = "h1" THEN [Idle EXCEPT !.kind = "ToCSI", !.req = [t |-> t]]
                      ELSE Idle]
       \/ \E segments \in SegmentsMaps :
             rpc = [h \in Handlers |->
                      IF h = "h1"
                      THEN [Idle EXCEPT !.kind = "NewTopology",
                                        !.req = [segments |-> segments]]
                      ELSE Idle]

ToCSICall(h) ==
    /\ rpc[h].kind = "ToCSI"
    /\ rpc[h].pc = "idle"
    /\ rpc' = [rpc EXCEPT ![h].pc = "csi", ![h].loc = [segments |-> ToCSI(rpc[h].req.t)]]
    /\ UNCHANGED <<volumes, nextID, snapshots, volumeLocks, operationLocks>>

\* NewTopology of what ToCSI gave.
NewTopologyOfCSICall(h) ==
    /\ rpc[h].kind = "ToCSI"
    /\ rpc[h].pc = "csi"
    /\ rpc' = [rpc EXCEPT ![h].pc = "done", ![h].resp = NewTopology(rpc[h].loc.segments)]
    /\ UNCHANGED <<volumes, nextID, snapshots, volumeLocks, operationLocks>>

NewTopologyCall(h) ==
    /\ rpc[h].kind = "NewTopology"
    /\ rpc[h].pc = "idle"
    /\ rpc' = [rpc EXCEPT ![h].pc = "done", ![h].resp = NewTopology(rpc[h].req.segments)]
    /\ UNCHANGED <<volumes, nextID, snapshots, volumeLocks, operationLocks>>

NextTopology ==
    \/ ToCSICall("h1")
    \/ NewTopologyOfCSICall("h1")
    \/ NewTopologyCall("h1")

SpecTopology == InitTopology /\ [][NextTopology]_vars

(***************************************************************************)
(* diskUUIDToSerial alone, over volume IDs of every length up to that of   *)
(* a UUID and more, with hyphens at some of a few places.                  *)
(***************************************************************************)
MaxIDLength == 38

HexDigits == <<"0", "1", "2", "3", "4", "5", "6", "7", "8", "9", "a", "b", "c", "d", "e", "f">>

\* The places of the hyphens of a UUID, and some others.
HyphenPlaces == {1, 9, 14, 19, 20, 21, 24}

\* The ID of the given length with hyphens at the given places.
IDOf(length, hyphens) ==
    [i \in 1..length |-> IF i \in hyphens THEN "-" ELSE HexDigits[(i % 16) + 1]]

InitSerial ==
    /\ volumes = [id \in VolumeIDs |-> NoVol]
    /\ nextID = 1
    /\ snapshots = [id \in SnapshotIDs |-> NoSnap]
    /\ volumeLocks = {}
    /\ operationLocks = {}
    /\ \E length \in 0..MaxIDLength : \E hyphens \in SUBSET HyphenPlaces :
          rpc = [h \in Handlers |->
                   IF h = "h1"
                   THEN [Idle EXCEPT !.kind = "diskUUIDToSerial",
                                     !.req = [uuid |-> IDOf(length, hyphens)]]
                   ELSE Idle]

diskUUIDToSerialCall(h) ==
    /\ rpc[h].kind = "diskUUIDToSerial"
    /\ rpc[h].pc = "idle"
    /\ rpc' = [rpc EXCEPT ![h].pc = "serial",
                          ![h].loc = [serial |-> diskUUIDToSerial(rpc[h].req.uuid)]]
    /\ UNCHANGED <<volumes, nextID, snapshots, volumeLocks, operationLocks>>

\* diskUUIDToSerial of a serial.
diskUUIDToSerialOfSerialCall(h) ==
    /\ rpc[h].kind = "diskUUIDToSerial"
    /\ rpc[h].pc = "serial"
    /\ rpc' = [rpc EXCEPT ![h].pc = "done",
                          ![h].resp = [serial |-> diskUUIDToSerial(rpc[h].loc.serial)]]
    /\ UNCHANGED <<volumes, nextID, snapshots, volumeLocks, operationLocks>>

NextSerial ==
    \/ diskUUIDToSerialCall("h1")
    \/ diskUUIDToSerialOfSerialCall("h1")

SpecSerial == InitSerial /\ [][NextSerial]_vars

(***************************************************************************)
(* One discovery attempt alone, over every file system of the node.        *)
(***************************************************************************)
\* The volume whose device the node looks for.
NodeVolumeID == IDOf(36, {9, 14, 19, 24})

FileSystems ==
    {dev @@ src : dev \in [DevicePaths -> DeviceStates],
                  src \in [SourcePaths(diskUUIDToSerial(NodeVolumeID)) -> SourceStates]}

InitProbe ==
    /\ volumes = [id \in VolumeIDs |-> NoVol]
    /\ nextID = 1
    /\ snapshots = [id \in SnapshotIDs |-> NoSnap]
    /\ volumeLocks = {}
    /\ operationLocks = {}
    /\ \E fs \in FileSystems :
          rpc = [h \in Handlers |->
                   IF h = "h1"
                   THEN [Idle EXCEPT !.kind = "getDevicePathBySerialID",
                                     !.req = [volumeID |-> NodeVolumeID, fs |-> fs]]
                   ELSE Idle]

getDevicePathBySerialIDCall(h) ==
    /\ rpc[h].kind = "getDevicePathBySerialID"
    /\ rpc[h].pc = "idle"
    /\ rpc' = [rpc EXCEPT ![h].pc = "done",
                          ![h].resp = getDevicePathBySerialID(rpc[h].req.fs,
                                                              rpc[h].req.volumeID)]
    /\ UNCHANGED <<volumes, nextID, snapshots, volumeLocks, operationLocks>>

NextProbe == getDevicePathBySerialIDCall("h1")

SpecProbe == InitProbe /\ [][NextProbe]_vars

(***************************************************************************)
(* GetDevicePath, on a node whose file system has at each attempt no       *)
(* candidate or one.                                                       *)
(***************************************************************************)
EmptyFileSystem ==
    [path \in DevicePaths \cup SourcePaths(diskUUIDToSerial(NodeVolumeID)) |-> "absent"]

AttemptFileSystems ==
    {EmptyFileSystem}
    \cup {[EmptyFileSystem EXCEPT ![path] = state] :
             path \in DevicePaths, state \in DeviceStates}
    \cup {[EmptyFileSystem EXCEPT ![path] = state] :
             path \in SourcePaths(diskUUIDToSerial(NodeVolumeID)), state \in SourceStates}

InitDevice ==
    /\ volumes = [id \in VolumeIDs |-> NoVol]
    /\ nextID = 1
    /\ snapshots = [id \in SnapshotIDs |-> NoSnap]
    /\ volumeLocks = {}
    /\ operationLocks = {}
    /\ rpc = [h \in Handlers |-> Idle]

NextDevice ==
    \/ GetDevicePathBegin("h1", NodeVolumeID)
    \/ GetDevicePathAttempt("h1", AttemptFileSystems)
    \/ GetDevicePathWait("h1")

SpecDevice == InitDevice /\ [][NextDevice]_vars

(***************************************************************************)
(* Words for the properties.                                               *)
(***************************************************************************)
LockingKinds == {"CreateVolume", "DeleteVolume", "ControllerExpandVolume"}

\* The key a task's RPC locks: the volume name for CreateVolume, the volume ID
\* for the others.
Key(r) == IF r.kind = "CreateVolume" THEN r.req.name ELSE r.req.volume_id

InFlight(h) == rpc[h].pc \notin {"idle", "done"}

Returned(h, kind) == rpc[h].pc = "done" /\ rpc[h].kind = kind

\* Task h holds the identifier lock on k.
Holds(h, k) == InFlight(h) /\ rpc[h].kind \in LockingKinds /\ Key(rpc[h]) = k

\* In this step task h starts an RPC of one of the given kinds.
Begins(h, kinds) ==
    /\ Free(h)
    /\ rpc'[h] # rpc[h]
    /\ rpc'[h].kind \in kinds
    /\ rpc'[h].pc = "done" => rpc'[h].calls = <<>>

CloudUnchanged == UNCHANGED <<volumes, nextID, snapshots>>

(***************************************************************************)
(* C1.  For any key k at most one in-flight CreateVolume(name = k),        *)
(* DeleteVolume(volume_id = k) or ControllerExpandVolume(volume_id = k)    *)
(* holds the identifier lock on k, and a handler whose TryAcquire(k) fails *)
(* returns Aborted, leaving both registries and the cloud as they were.    *)
(***************************************************************************)
C1_OneHolder ==
    /\ \A h1, h2 \in Handlers :
          Holds(h1, Key(rpc[h1])) /\ Holds(h2, Key(rpc[h1])) => h1 = h2
    /\ \A h \in Handlers : Holds(h, Key(rpc[h])) => Key(rpc[h]) \in volumeLocks

C1_FailedAcquire ==
    \A h \in Handlers :
        (/\ Begins(h, LockingKinds)
         /\ Key(rpc'[h]) \in volumeLocks
         /\ rpc'[h].resp.code # "InvalidArgument")
        => /\ rpc'[h].pc = "done"
           /\ rpc'[h].resp.code = "Aborted"
           /\ rpc'[h].calls = <<>>
           /\ UNCHANGED <<volumeLocks, operationLocks>>
           /\ CloudUnchanged

C1_LockExclusion == [](C1_OneHolder) /\ [][C1_FailedAcquire]_vars

\* A CreateVolume holds the lock on k while a DeleteVolume for the ID k has
\* been turned away.
C1_Witness ==
    \E h1, h2 \in Handlers :
        /\ Holds(h1, Key(rpc[h1]))
        /\ rpc[h1].kind = "CreateVolume"
        /\ Returned(h2, "DeleteVolume")
        /\ Key(rpc[h2]) = Key(rpc[h1])
        /\ rpc[h2].resp.code = "Aborted"

(***************************************************************************)
(* C2.  For one volume at most one of CreateVolume, DeleteVolume,          *)
(* ControllerPublishVolume, ControllerUnpublishVolume and                  *)
(* ControllerExpandVolume is between its first cloud lookup and its last   *)
(* cloud call.                                                             *)
(***************************************************************************)
\* Task h is past its first cloud call and has not made its last.
Midway(h) ==
    rpc[h].pc \in {"cv_getsnap", "cv_fromsnap", "cv_zones", "cv_create", "dv_delete",
                   "pv_getvm", "pv_attach", "uv_getvm", "uv_detach", "ev_expand"}

C2_OnePerVolume ==
    \A h1, h2 \in Handlers :
        Midway(h1) /\ Midway(h2) /\ Key(rpc[h1]) = Key(rpc[h2]) => h1 = h2

(***************************************************************************)
(* C3.  Every entry of the two registries belongs to an RPC in flight:     *)
(* with no CreateVolume, DeleteVolume or ControllerExpandVolume executing  *)
(* both registries are empty, whichever way the RPCs before ended.         *)
(***************************************************************************)
C3_RegistriesInFlight ==
    /\ volumeLocks = {Key(rpc[h]) : h \in {x \in Handlers : Holds(x, Key(rpc[x]))}}
    /\ operationLocks =
          {<<"delete", rpc[h].req.volume_id>> :
              h \in {x \in Handlers : rpc[x].pc = "dv_delete"}}
          \cup {<<"expand", rpc[h].req.volume_id>> :
              h \in {x \in Handlers : rpc[x].pc = "ev_expand"}}

\* A DeleteVolume and a ControllerExpandVolume have both failed in the cloud,
\* and nothing is locked.
C3_Witness ==
    \E h1, h2 \in Handlers :
        /\ Returned(h1, "DeleteVolume") /\ rpc[h1].resp.code = "Internal"
        /\ Returned(h2, "ControllerExpandVolume") /\ rpc[h2].resp.code = "Internal"
        /\ rpc[h2].calls = <<"ExpandVolume">>
        /\ volumeLocks = {} /\ operationLocks = {}

(***************************************************************************)
(* C4.  A cloud DeleteVolume and a cloud ExpandVolume for one volume ID    *)
(* are never in flight together: while a ControllerExpandVolume for the ID *)
(* is executing a DeleteVolume for it returns Aborted without calling the  *)
(* cloud, and the other way round.                                         *)
(***************************************************************************)
C4_NotTogether ==
    \A h1, h2 \in Handlers :
        ~(/\ rpc[h1].pc = "dv_delete"
          /\ rpc[h2].pc = "ev_expand"
          /\ rpc[h1].req.volume_id = rpc[h2].req.volume_id)

C4_TurnedAway ==
    \A h1, h2 \in Handlers :
        (/\ InFlight(h1)
         /\ \/ rpc[h1].kind = "ControllerExpandVolume" /\ Begins(h2, {"DeleteVolume"})
            \/ rpc[h1].kind = "DeleteVolume" /\ Begins(h2, {"ControllerExpandVolume"})
         /\ rpc'[h2].req.volume_id = rpc[h1].req.volume_id)
        => /\ rpc'[h2].pc = "done"
           /\ rpc'[h2].resp.code = "Aborted"
           /\ rpc'[h2].calls = <<>>
           /\ CloudUnchanged

C4_DeleteExpandExclusion == [](C4_NotTogether) /\ [][C4_TurnedAway]_vars

\* An expand is about to call the cloud and a delete for the same volume has
\* been turned away.
C4_Witness ==
    \E h1, h2 \in Handlers :
        /\ rpc[h1].pc = "ev_expand"
        /\ Returned(h2, "DeleteVolume")
        /\ rpc[h2].req.volume_id = rpc[h1].req.volume_id
        /\ rpc[h2].resp.code = "Aborted"

(***************************************************************************)
(* C5.  As stated: of two concurrent CreateVolume requests with one name   *)
(* and compatible parameters exactly one calls the cloud to create, and    *)
(* both return the same VolumeId; so the request that starts while the     *)
(* other is in flight is not turned away.                                  *)
(***************************************************************************)
C5_NotTurnedAway ==
    \A h1, h2 \in Handlers :
        (/\ InFlight(h1)
         /\ rpc[h1].kind = "CreateVolume"
         /\ Begins(h2, {"CreateVolume"})
         /\ rpc'[h2].req = rpc[h1].req)
        => rpc'[h2].resp.code # "Aborted"

C5_BothReturnSameId == [][C5_NotTurnedAway]_vars

(***************************************************************************)
(* C5, amended.  Two CreateVolume requests with one name are never in      *)
(* flight together: the one that starts while the other is in flight       *)
(* returns Aborted without a cloud call; and two requests for the name     *)
(* that both succeeded with volumes that still exist returned the same     *)
(* VolumeId, the cloud create having been called by one of them at most.   *)
(***************************************************************************)
C5_OneInFlight ==
    \A h1, h2 \in Handlers :
        (/\ InFlight(h1) /\ rpc[h1].kind = "CreateVolume"
         /\ InFlight(h2) /\ rpc[h2].kind = "CreateVolume"
         /\ rpc[h1].req.name = rpc[h2].req.name)
        => h1 = h2

C5_SameId ==
    \A h1, h2 \in Handlers :
        (/\ h1 # h2
         /\ Returned(h1, "CreateVolume") /\ rpc[h1].resp.code = "OK"
         /\ Returned(h2, "CreateVolume") /\ rpc[h2].resp.code = "OK"
         /\ rpc[h1].req.name = rpc[h2].req.name
         /\ volumes[rpc[h1].resp.VolumeId] # NoVol
         /\ volumes[rpc[h2].resp.VolumeId] # NoVol)
        => /\ rpc[h1].resp.VolumeId = rpc[h2].resp.VolumeId
           /\ rpc[h1].calls = <<>> \/ rpc[h2].calls = <<>>

C5_SecondAborted ==
    \A h1, h2 \in Handlers :
        (/\ InFlight(h1)
         /\ rpc[h1].kind = "CreateVolume"
         /\ Begins(h2, {"CreateVolume"})
         /\ rpc'[h2].req.name = rpc[h1].req.name)
        => /\ rpc'[h2].pc = "done"
           /\ rpc'[h2].resp.code = "Aborted"
           /\ rpc'[h2].calls = <<>>
           /\ CloudUnchanged

C5_Amended == [](C5_OneInFlight /\ C5_SameId) /\ [][C5_SecondAborted]_vars

\* One request created the volume, the other found it and returned its ID.
C5_Witness ==
    \E h1, h2 \in Handlers :
        /\ Returned(h1, "CreateVolume") /\ rpc[h1].resp.code = "OK"
        /\ rpc[h1].calls = <<"CreateVolume">>
        /\ Returned(h2, "CreateVolume") /\ rpc[h2].resp.code = "OK"
        /\ rpc[h2].calls = <<>>
        /\ rpc[h2].req = rpc[h1].req
        /\ rpc[h2].resp.VolumeId = rpc[h1].resp.VolumeId

(***************************************************************************)
(* C6.  A CreateVolume request that succeeded with VolumeId v, repeated    *)
(* unchanged while v exists, succeeds again with v and issues no cloud     *)
(* create call; for a plain volume and for one made from a snapshot.       *)
(***************************************************************************)
C6_Retry ==
    \A h1, h2 \in Handlers :
        (/\ Returned(h1, "CreateVolume") /\ rpc[h1].resp.code = "OK"
         /\ volumes[rpc[h1].resp.VolumeId] # NoVol
         /\ rpc[h2].kind = "CreateVolume" /\ rpc[h2].pc = "cv_lookup"
         /\ rpc[h2].req = rpc[h1].req
         /\ rpc'[h2] # rpc[h2]
         /\ rpc'[h2].resp.code # "Internal")
        => /\ rpc'[h2].pc = "done"
           /\ rpc'[h2].resp.code = "OK"
           /\ rpc'[h2].resp.VolumeId = rpc[h1].resp.VolumeId
           /\ rpc'[h2].calls = <<>>

C6_Idempotent == [][C6_Retry]_vars

(***************************************************************************)
(* C7.  No two volumes of the cloud share a name, and between a            *)
(* CreateVolume's lookup that found nothing and its create call nobody     *)
(* else creates a volume with that name.                                   *)
(***************************************************************************)
C7_UniqueNames ==
    /\ \A i, j \in VolumeIDs :
          (/\ volumes[i] # NoVol /\ volumes[j] # NoVol
           /\ volumes[i].name = volumes[j].name) => i = j
    /\ \A h \in Handlers :
          rpc[h].pc \in {"cv_getsnap", "cv_fromsnap", "cv_zones", "cv_create"}
          => \A i \in VolumeIDs : volumes[i] # NoVol => volumes[i].name # rpc[h].req.name

\* A volume was created under a name while a second CreateVolume for the name
\* was turned away, and a volume of another name exists beside it.
C7_Witness ==
    /\ \E i, j \in VolumeIDs :
          volumes[i] # NoVol /\ volumes[j] # NoVol /\ volumes[i].name # volumes[j].name
    /\ \E h1, h2 \in Handlers :
        /\ Returned(h1, "CreateVolume") /\ rpc[h1].resp.code = "OK"
        /\ rpc[h1].calls # <<>>
        /\ volumes[rpc[h1].resp.VolumeId] # NoVol
        /\ Returned(h2, "CreateVolume") /\ rpc[h2].resp.code = "Aborted"
        /\ rpc[h2].req.name = rpc[h1].req.name

(***************************************************************************)
(* C8.  When a volume with the requested name exists, CreateVolume issues  *)
(* no cloud create call.  It returns the volume's ID, size and zone if the *)
(* disk offering equals the requested one, the size is within the required *)
(* and the limit bytes (each looked at only when positive) and, when a     *)
(* requisite topology is given, it is a single one naming the volume's     *)
(* zone; otherwise it returns AlreadyExists.                               *)
(***************************************************************************)
\* The volume that carries the name.
Named(name) == CHOOSE v \in Existing : v.name = name

Fits(v, req) ==
    /\ v.offering = req.offering
    /\ req.range.limit > 0 => v.size <= req.range.limit
    /\ req.range.required > 0 => v.size >= req.range.required
    /\ req.requisite # <<>> =>
          /\ Len(req.requisite) = 1
          /\ ZoneKey \in DOMAIN req.requisite[1]
          /\ req.requisite[1][ZoneKey] = v.zone

C8_Lookup ==
    \A h \in Handlers :
        (/\ rpc[h].kind = "CreateVolume" /\ rpc[h].pc = "cv_lookup"
         /\ rpc'[h] # rpc[h]
         /\ \E v \in Existing : v.name = rpc[h].req.name
         /\ rpc'[h].resp.code # "Internal")
        => LET v == Named(rpc[h].req.name)
           IN  /\ rpc'[h].pc = "done"
               /\ rpc'[h].calls = <<>>
               /\ CloudUnchanged
               /\ rpc'[h].resp =
                     IF Fits(v, rpc[h].req)
                     THEN [code |-> "OK", VolumeId |-> v.id,
                           CapacityBytes |-> v.size, ZoneID |-> v.zone]
                     ELSE Status("AlreadyExists")

C8_ExistingName == [][C8_Lookup]_vars

\* The name was taken by a volume of the offering and of a size asked for, in
\* another zone than the requisite one.
C8_Witness ==
    \E h \in Handlers :
        /\ Returned(h, "CreateVolume")
        /\ rpc[h].resp.code = "AlreadyExists"
        /\ \E v \in Existing :
              /\ v.name = rpc[h].req.name
              /\ v.offering = rpc[h].req.offering
              /\ rpc[h].req.range.limit > 0 /\ v.size <= rpc[h].req.range.limit
              /\ rpc[h].req.range.required > 0 /\ v.size >= rpc[h].req.range.required
              /\ Len(rpc[h].req.requisite) = 1
              /\ ZoneKey \in DOMAIN rpc[h].req.requisite[1]
              /\ v.zone # rpc[h].req.requisite[1][ZoneKey]

(***************************************************************************)
(* C9.  Every successful CreateVolume returns a CapacityBytes no smaller   *)
(* than the required bytes and, with a positive limit, no larger than the  *)
(* limit; for a new volume, an existing one and one made from a snapshot.  *)
(***************************************************************************)
C9_WithinRange ==
    \A h \in Handlers :
        Returned(h, "CreateVolume") /\ rpc[h].resp.code = "OK"
        => /\ rpc[h].resp.CapacityBytes >= rpc[h].req.range.required
           /\ rpc[h].req.range.limit > 0
                 => rpc[h].resp.CapacityBytes <= rpc[h].req.range.limit

(***************************************************************************)
(* C10.  determineSize answers max(1, ceil(required / 2^30)) GiB and no    *)
(* error when the capacity range is absent, when the limit is 0, or when   *)
(* that size in bytes is not over the limit; it answers an error and the   *)
(* size 0 exactly when the limit is positive and that size in bytes is     *)
(* over it.                                                                *)
(***************************************************************************)
\* ceil(bytes / 2^30)
CeilGB(bytes) ==
    CHOOSE n \in 0..(MaxSizeGB + 1) : n * GiB >= bytes /\ (n - 1) * GiB < bytes

ExpectedGB(capRange) ==
    IF CeilGB(capRange.required) < 1 THEN 1 ELSE CeilGB(capRange.required)

Gone(id) == \A v \in Existing : v.id # id

C11_Delete ==
    \A h \in Handlers :
        (/\ rpc[h].kind = "DeleteVolume" /\ rpc[h].pc = "dv_delete"
         /\ rpc'[h] # rpc[h])
        => /\ (Gone(rpc[h].req.volume_id) /\ rpc'[h].loc.outcome # "error")
                 => rpc'[h].resp = Status("OK") /\ CloudUnchanged
           /\ rpc'[h].resp.code = "OK"
                 => \/ \A i \in VolumeIDs : volumes'[i] # NoVol
                                               => volumes'[i].id # rpc[h].req.volume_id
                    \/ CloudUnchanged

C11_DeleteMissing == [][C11_Delete]_vars

\* A volume was created and deleted, and a second DeleteVolume for its ID has
\* returned success.
C11_Witness ==
    \E h \in Handlers :
        /\ Returned(h, "DeleteVolume")
        /\ rpc[h].resp = Status("OK")
        /\ rpc[h].loc.outcome = "4350"
        /\ nextID > 1
        /\ rpc[h].req.volume_id = AllIDs[1]
        /\ volumes[AllIDs[1]] = NoVol

(***************************************************************************)
(* C12.  ControllerPublishVolume calls AttachVolume only when the volume   *)
(* it looked up is detached and the VM named by node_id exists.  For a     *)
(* volume attached to another VM it returns AlreadyExists; for a volume    *)
(* attached to node_id it returns the volume's DeviceID as the one entry   *)
(* deviceID of the publish context; both without calling AttachVolume.     *)
(***************************************************************************)
C12_AttachOnlyDetached ==
    \A h \in Handlers :
        (/\ rpc[h].kind = "ControllerPublishVolume"
         /\ rpc[h].pc = "pv_attach" \/ rpc[h].calls # <<>>)
        => /\ rpc[h].loc.vol.VirtualMachineID = ""
           /\ rpc[h].req.node_id \in VMs

C12_Attached ==
    \A h \in Handlers :
        /\ (/\ rpc[h].pc = "pv_getvol"
            /\ rpc'[h] # rpc[h]
            /\ \E v \in Existing : /\ v.id = rpc[h].req.volume_id
                                   /\ v.vmid \notin {"", rpc[h].req.node_id}
            /\ rpc'[h].resp.code # "Internal")
           => /\ rpc'[h].pc = "done"
              /\ rpc'[h].resp = Status("AlreadyExists")
              /\ rpc'[h].calls = <<>>
              /\ CloudUnchanged
        /\ (/\ rpc[h].pc = "pv_getvm"
            /\ rpc'[h] # rpc[h]
            /\ rpc[h].loc.vol.VirtualMachineID = rpc[h].req.node_id
            /\ rpc'[h].resp.code # "Internal")
           => /\ rpc'[h].pc = "done"
              /\ rpc'[h].resp = [code |-> "OK", deviceID |-> rpc[h].loc.vol.DeviceID]
              /\ rpc'[h].calls = <<>>
              /\ CloudUnchanged

C12_Publish == [](C12_AttachOnlyDetached) /\ [][C12_Attached]_vars

\* The volume was attached to the node already: its device ID comes back and
\* nothing was attached.
C12_Witness ==
    \E h \in Handlers :
        /\ Returned(h, "ControllerPublishVolume")
        /\ rpc[h].resp = [code |-> "OK", deviceID |-> "1"]
        /\ rpc[h].calls = <<>>
        /\ rpc[h].loc.vol.VirtualMachineID = rpc[h].req.node_id

(***************************************************************************)
(* C13.  Only three failures become a success response: NotFound from the  *)
(* cloud's DeleteVolume, NotFound from its DeleteSnapshot, and the missing  *)
(* VM of ControllerUnpublishVolume.  So every other lookup of a volume, a  *)
(* VM or a snapshot that the cloud answers with NotFound ends the RPC with *)
(* an error status.                                                        *)
(***************************************************************************)
\* The lookup task h is about to make is one the cloud answers with NotFound,
\* and not one of the three.
LookupMissing(h) ==
    \/ /\ rpc[h].pc \in {"pv_getvol", "uv_getvol", "ev_getvol"}
       /\ GetVolumeByID(rpc[h].req.volume_id).err = "NotFound"
    \/ /\ rpc[h].pc = "pv_getvm"
       /\ GetVMByID(rpc[h].req.node_id).err = "NotFound"
    \/ /\ rpc[h].pc = "cv_getsnap"
       /\ GetSnapshotByID(rpc[h].req.snapshot).err = "NotFound"

C13_Surfaced ==
    \A h \in Handlers :
        rpc'[h] # rpc[h] /\ LookupMissing(h)
        => rpc'[h].pc = "done" /\ rpc'[h].resp.code # "OK"

C13_OnlyThreeRecovered == [][C13_Surfaced]_vars

(***************************************************************************)
(* C14.  A cloud call that fails with an error other than NotFound or      *)
(* AlreadyExists makes the RPC return Internal, a failing ListZonesID in   *)
(* CreateVolume included.  So the step of an RPC that makes a cloud call   *)
(* ends the RPC with no other error status than NotFound, AlreadyExists    *)
(* and Internal (and Aborted, the answer of the expand lock).              *)
(***************************************************************************)
\* The steps that are a cloud call and what follows from its answer alone.
CallSteps ==
    {"cv_getsnap", "cv_fromsnap", "cv_zones", "cv_create", "dv_delete",
     "pv_getvol", "pv_getvm", "pv_attach", "uv_getvol", "uv_getvm", "uv_detach",
     "ev_getvol", "ev_expand"}

C14_CallStep ==
    \A h \in Handlers :
        rpc'[h] # rpc[h] /\ rpc[h].pc \in CallSteps
        => rpc'[h].resp.code \in {"none", "OK", "NotFound", "AlreadyExists",
                                  "Internal", "Aborted"}

C14_OtherErrorsInternal == [][C14_CallStep]_vars

\* The connector result of the ListSnapshots call of task h, as entries.
Result(h) ==
    LET snaps == ListedSnapshots(rpc[h].req.source_volume_id, rpc[h].req.snapshot_id)
    IN  [i \in 1..Len(snaps) |-> ListSnapshotsEntry(snaps[i])]

\* Task h is on a walk: it began with an empty starting_token and has gone on
\* with the next_token of each page.
OnWalk(h) == rpc[h].req.starting_token = "" \/ rpc[h].loc # NoLoc

\* C15: the pages of a walk from an empty starting_token, put one after the
\* other, are the first entries of the connector result in its order; a page
\* with a next_token has at least one entry and its next_token is the number
\* of entries returned so far, fewer than the result has, so that the walk
\* ends; the page with an empty next_token ends the result.  A
\* starting_token that is not a number, is negative or is more than the
\* length of the result is answered with Aborted, and no other is.
C15_Pagination ==
    \A h \in Handlers :
        (Returned(h, "ListSnapshots") /\ rpc[h].resp.code # "Internal") =>
            LET token == rpc[h].req.starting_token
                all == Result(h)
                bad == token # "" /\ (Atoi(token).err \/ Atoi(token).n < 0
                                                      \/ Atoi(token).n > Len(all))
            IN  /\ bad <=> rpc[h].resp = Status("Aborted")
                /\ (OnWalk(h) /\ ~bad) =>
                      LET walked == Pages(h) \o rpc[h].resp.entries
                      IN  /\ Len(walked) <= Len(all)
                          /\ walked = SubSeq(all, 1, Len(walked))
                          /\ rpc[h].resp.next_token = "" => walked = all
                          /\ rpc[h].resp.next_token # "" =>
                                /\ rpc[h].req.max_entries > 0
                                /\ Len(rpc[h].resp.entries) = rpc[h].req.max_entries
                                /\ Atoi(rpc[h].resp.next_token) =
                                       [err |-> FALSE, n |-> Len(walked)]
                                /\ Len(walked) < Len(all)

\* A walk over three snapshots, two to a page, has come to its end with the
\* second page.
C15_Witness ==
    \E h \in Handlers :
        /\ Returned(h, "ListSnapshots")
        /\ rpc[h].req.max_entries = 2
        /\ Len(Pages(h)) = 2
        /\ rpc[h].resp.code = "OK"
        /\ Len(rpc[h].resp.entries) = 1
        /\ rpc[h].resp.next_token = ""
        /\ Len(Result(h)) = 3

\* The snapshots whose entries are in the page that task h has.
PageSnapshots(h) ==
    LET snaps == ListedSnapshots(rpc[h].req.source_volume_id, rpc[h].req.snapshot_id)
        start == IF rpc[h].req.starting_token = "" THEN 0
                 ELSE Atoi(rpc[h].req.starting_token).n
    IN  {snaps[start + i] : i \in 1..Len(rpc[h].resp.entries)}

\* No page has a snapshot whose CreatedAt is not in the format.
C16_ListParsed ==
    \A h \in Handlers :
        (Returned(h, "ListSnapshots") /\ rpc[h].resp.code = "OK") =>
            \A snap \in PageSnapshots(h) : ~ParseTime(snap.CreatedAt).err

\* A CreateSnapshot whose snapshot has a CreatedAt not in the format returns
\* Internal.
C16_CreateParsed ==
    \A h \in Handlers :
        (rpc[h].pc = "cs_create" /\ rpc'[h] # rpc[h] /\ snapshots' # snapshots
            /\ ParseTime(snapshots'[NextSnapshotID].created).err)
        => rpc'[h].resp = Status("Internal")

\* C16: an RPC that converts a snapshot CreatedAt that is not in the format
\* YYYY-MM-DDTHH:MM:SS+-HHMM returns Internal, in CreateSnapshot and for every
\* snapshot of a ListSnapshots page.
C16_UnparsedInternal == [](C16_ListParsed) /\ [][C16_CreateParsed]_vars

\* The name is the name of a snapshot of the volume and of none of another.
NameOfSameVolume(volumeID, name) ==
    /\ ~NameTaken(volumeID, name)
    /\ \E id \in SnapshotIDs :
          Live(id) /\ snapshots[id].name = name /\ snapshots[id].volume = volumeID

C17_Create ==
    \A h \in Handlers :
        (rpc[h].pc = "cs_create" /\ rpc'[h] # rpc[h]) =>
            /\ NameTaken(rpc[h].loc.vol.ID, rpc[h].req.name)
                  => /\ snapshots' = snapshots
                     /\ rpc'[h].resp.code \in {"AlreadyExists", "Internal"}
            /\ (NameOfSameVolume(rpc[h].loc.vol.ID, rpc[h].req.name)
                    /\ rpc'[h].resp.code # "Internal")
                  => /\ rpc'[h].resp.code = "OK"
                     /\ snapshots' # snapshots

\* C17: CreateSnapshot with a name that a snapshot of another source volume
\* has creates no snapshot and returns AlreadyExists (Internal when the call
\* to the cloud fails); with a name that only snapshots of the same source
\* volume have it creates a snapshot and succeeds.
C17_NameConflict == [][C17_Create]_vars

C18_Delete ==
    \A h \in Handlers :
        (rpc[h].pc = "ds_delete" /\ rpc'[h] # rpc[h]) =>
            /\ (~Live(rpc[h].req.snapshot_id) /\ rpc'[h].loc.outcome # "error")
                  => rpc'[h].resp = Status("OK") /\ snapshots' = snapshots
            /\ rpc'[h].resp.code = "OK"
                  => \/ rpc[h].req.snapshot_id \notin SnapshotIDs
                     \/ snapshots'[rpc[h].req.snapshot_id] \in {NoSnap, DeletedSnap}

\* C18: DeleteSnapshot of an ID the cloud has no snapshot of returns the
\* empty success and leaves the snapshots as they are, unless the call to
\* the cloud fails with another error; after every success the cloud has
\* no snapshot of the ID, so that the same call again is such a call.
C18_DeleteMissing == [][C18_Delete]_vars

\* DeleteSnapshot of s1 has succeeded for the second time: the cloud, which
\* had deleted s1 before, answered with error 4350.
C18_Witness ==
    \E h \in Handlers :
        /\ Returned(h, "DeleteSnapshot")
        /\ rpc[h].req.snapshot_id = "s1"
        /\ rpc[h].loc.outcome = "4350"
        /\ snapshots["s1"] = DeletedSnap
        /\ rpc[h].resp = Status("OK")

\* C19: every Volume that a task has from the connector has an empty
\* VirtualMachineID exactly when it has an empty DeviceID.
C19_AttachedIffDevice ==
    \A h \in Handlers :
        "vol" \in DOMAIN rpc[h].loc =>
            (rpc[h].loc.vol.VirtualMachineID = "" <=> rpc[h].loc.vol.DeviceID = "")

\* C20: ToCSI writes the zone segment, and the host segment exactly when
\* HostID is not empty; NewTopology of what ToCSI gave succeeds with the
\* ZoneID and HostID of the Topology; NewTopology of segments that are
\* absent or have no zone key fails.
C20_RoundTrip ==
    \A h \in Handlers :
        /\ (rpc[h].kind = "ToCSI" /\ rpc[h].pc \in {"csi", "done"}) =>
              /\ ZoneKey \in DOMAIN rpc[h].loc.segments
              /\ rpc[h].loc.segments[ZoneKey] = rpc[h].req.t.ZoneID
              /\ HostKey \in DOMAIN rpc[h].loc.segments <=> rpc[h].req.t.HostID # ""
              /\ DOMAIN rpc[h].loc.segments \subseteq {ZoneKey, HostKey}
        /\ Returned(h, "ToCSI") =>
              rpc[h].resp = [err |-> "", ZoneID |-> rpc[h].req.t.ZoneID,
                             HostID |-> rpc[h].req.t.HostID]
        /\ Returned(h, "NewTopology") =>
              /\ (rpc[h].req.segments = NilSegments
                     \/ ZoneKey \notin DOMAIN rpc[h].req.segments) <=> rpc[h].resp.err # ""
              /\ rpc[h].resp.err = "" =>
                    rpc[h].resp.ZoneID = rpc[h].req.segments[ZoneKey]

\* A Topology with a zone and no host has gone to CSI and back.
C20_Witness ==
    \E h \in Handlers :
        /\ Returned(h, "ToCSI")
        /\ rpc[h].req.t = [ZoneID |-> "z1", HostID |-> ""]
        /\ rpc[h].loc.segments = Segment("z1")
        /\ rpc[h].resp.err = ""

\* The requisite topologies are more than one, or the one has no zone segment.
BadRequisite(requisite) ==
    \/ Len(requisite) > 1
    \/ Len(requisite) = 1 /\ NewTopology(requisite[1]).err # ""

C21_Create ==
    \A h \in Handlers :
        (rpc'[h] # rpc[h] /\ rpc'[h].kind = "CreateVolume"
            /\ BadRequisite(rpc'[h].req.requisite)) =>
            /\ volumes' = volumes
            /\ rpc'[h].pc = "done" =>
                  rpc'[h].resp.code \in {"InvalidArgument", "Internal", "Aborted"}

\* C21: a CreateVolume whose requisite topologies are more than one, or whose
\* requisite topology has no zone segment, creates no volume and returns
\* InvalidArgument (Internal when a call to the cloud fails, Aborted when the
\* name is locked), with or without a volume of the name and with or without
\* a snapshot as content source.
C21_RequisiteChecked == [][C21_Create]_vars

\* Some capability has an access mode other than SINGLE_NODE_WRITER, or none.
Unsupported(caps) == \E i \in 1..Len(caps) : caps[i] # SINGLE_NODE_WRITER

\* C22: with a capability whose access mode is not SINGLE_NODE_WRITER, one
\* with no access mode among them, CreateVolume ends at its argument checks
\* with InvalidArgument, a ValidateVolumeCapabilities that succeeds has a
\* Message and no Confirmed part, and ControllerPublishVolume ends at its
\* argument checks with InvalidArgument.
C22_CapabilitiesChecked ==
    \A h \in Handlers :
        /\ (rpc[h].kind = "CreateVolume" /\ Unsupported(rpc[h].req.caps)) =>
              rpc[h].pc = "done" /\ rpc[h].resp = Status("InvalidArgument")
        /\ (Returned(h, "ValidateVolumeCapabilities") /\ rpc[h].resp.code = "OK"
                /\ Unsupported(rpc[h].req.caps)) =>
              rpc[h].resp.Message # "" /\ rpc[h].resp.Confirmed = <<>>
        /\ (rpc[h].kind = "ControllerPublishVolume" /\ rpc[h].req.cap # SINGLE_NODE_WRITER) =>
              rpc[h].pc = "done" /\ rpc[h].resp = Status("InvalidArgument")

Expands(id) ==
    \E h \in Handlers :
        /\ rpc[h].pc = "ev_expand" /\ rpc'[h].pc = "done"
        /\ rpc[h].req.volume_id = id

C24_Step ==
    /\ \A id \in VolumeIDs :
          (volumes[id] # NoVol /\ volumes'[id] # NoVol) =>
              /\ volumes'[id].id = volumes[id].id
              /\ volumes'[id].name = volumes[id].name
              /\ volumes'[id].offering = volumes[id].offering
              /\ volumes'[id].zone = volumes[id].zone
              /\ volumes'[id].size >= volumes[id].size
              /\ volumes'[id].size # volumes[id].size => Expands(id)
    /\ \A h \in Handlers :
          (rpc[h].pc = "ev_expand" /\ rpc'[h].pc = "done" /\ rpc'[h].resp.code = "OK") =>
              volumes'[rpc[h].req.volume_id].size >= rpc'[h].resp.CapacityBytes

\* C24: no step changes the ID, Name, DiskOfferingID or ZoneID of a volume
\* that exists before and after it, or makes its Size smaller; only the
\* ExpandVolume call of ControllerExpandVolume changes a Size, and after a
\* successful one the volume is at least as large as the CapacityBytes
\* returned.
C24_Immutable == [][C24_Step]_vars

\* ControllerExpandVolume has grown v1 to 3 GiB and returned 3 GiB.
C24_Witness ==
    \E h \in Handlers :
        /\ Returned(h, "ControllerExpandVolume")
        /\ rpc[h].req = [volume_id |-> "v1", range |-> Range(2 * GiB + 1, 0)]
        /\ rpc[h].resp = [code |-> "OK", CapacityBytes |-> 3 * GiB]
        /\ volumes["v1"].size = 3 * GiB

\* C25: an RPC issues at most one call that changes the cloud, and the call,
\* failed or not, is the last thing it does before it returns.
C25_OneCall ==
    \A h \in Handlers :
        /\ Len(rpc[h].calls) <= 1
        /\ rpc[h].calls # <<>> => rpc[h].pc = "done"

\* AttachVolume has failed and ControllerPublishVolume has returned Internal
\* after that one call.
C25_Witness ==
    \E h \in Handlers :
        /\ Returned(h, "ControllerPublishVolume")
        /\ rpc[h].resp = Status("Internal")
        /\ rpc[h].calls = <<"AttachVolume">>

\* The characters of a string other than the hyphens, in their order.
RECURSIVE WithoutHyphens(_)
WithoutHyphens(str) ==
    IF str = <<>> THEN <<>>
    ELSE IF Head(str) = "-" THEN WithoutHyphens(Tail(str))
    ELSE <<Head(str)>> \o WithoutHyphens(Tail(str))

\* The first 20 characters of a string without its hyphens.
WithoutHyphens20(str) ==
    IF Len(WithoutHyphens(str)) > 20 THEN [i \in 1..20 |-> WithoutHyphens(str)[i]]
    ELSE WithoutHyphens(str)

\* C28: the serial of an ID is the ID without its hyphens, cut to its first
\* 20 characters when it has more; it has no hyphen and at most 20
\* characters, and the serial of a serial is the serial itself.
C28_Serial ==
    \A h \in Handlers :
        (rpc[h].kind = "diskUUIDToSerial" /\ rpc[h].pc \in {"serial", "done"}) =>
            LET plain == WithoutHyphens(rpc[h].req.uuid)
                serial == rpc[h].loc.serial
            IN  /\ serial = IF Len(plain) > 20 THEN [i \in 1..20 |-> plain[i]] ELSE plain
                /\ \A i \in 1..Len(serial) : serial[i] # "-"
                /\ Len(serial) <= 20
                /\ rpc[h].pc = "done" => rpc[h].resp.serial = serial

\* A UUID of 36 characters with its four hyphens has gone to its serial of
\* 20 characters, and the serial to itself.
C28_Witness ==
    \E h \in Handlers :
        /\ Returned(h, "diskUUIDToSerial")
        /\ rpc[h].req.uuid = IDOf(36, {9, 14, 19, 24})
        /\ Len(rpc[h].loc.serial) = 20
        /\ rpc[h].loc.serial[20] = rpc[h].req.uuid[23]
        /\ rpc[h].resp.serial = rpc[h].loc.serial

\* The candidates of one attempt in the order of the probes: the XenServer
\* devices, the VMware devices, the three paths under /dev/disk/by-id.
Candidates(volumeID) ==
    [i \in 1..MaxLetters |-> <<"/dev/xvd", AllLetters[i]>>]
    \o [i \in 1..MaxLetters |-> <<"/dev/sd", AllLetters[i]>>]
    \o <<<<"/dev/disk/by-id", "virtio-", WithoutHyphens20(volumeID)>>,
         <<"/dev/disk/by-id", "scsi-", WithoutHyphens20(volumeID)>>,
         <<"/dev/disk/by-id", "scsi-0QEMU_QEMU_HARDDISK_", WithoutHyphens20(volumeID)>>>>

\* The candidate passes: a device of the first two probes is a block device,
\* not mounted, with a size and properties; a path of the third exists.
Good(fs, path) == fs[path] \in {"free", "present"}

\* C27: an attempt returns the first candidate, in the order XenServer,
\* VMware, virtio-, scsi-, scsi-0QEMU_QEMU_HARDDISK_, that passes; and with
\* /dev/disk/by-id/virtio-<serial> on the node it returns that path.
C27_ProbeOrder ==
    \A h \in Handlers :
        Returned(h, "getDevicePathBySerialID") =>
            LET fs == rpc[h].req.fs
                candidates == Candidates(rpc[h].req.volumeID)
            IN  /\ rpc[h].resp.path # <<>> =>
                      \E i \in 1..Len(candidates) :
                          /\ rpc[h].resp.path = candidates[i]
                          /\ Good(fs, candidates[i])
                          /\ \A j \in 1..(i - 1) : ~Good(fs, candidates[j])
                /\ fs[candidates[2 * MaxLetters + 1]] = "present" =>
                      rpc[h].resp = [path |-> candidates[2 * MaxLetters + 1], err |-> FALSE]

\* The number of attempts among the first n things GetDevicePath did.
RECURSIVE Attempts(_, _)
Attempts(calls, n) ==
    IF n = 0 THEN 0
    ELSE Attempts(calls, n - 1) + (IF calls[n] = "attempt" THEN 1 ELSE 0)

\* C26: GetDevicePath makes at most 20 attempts; every attempt but one that
\* ends the call is followed by a scan of the SCSI hosts and then by udevadm
\* trigger; a path is returned by the attempt that found it, the first that
\* found one; and a call that has returned has a path or an error, never
\* neither, the error when the attempts are used up among them.
C26_GetDevicePath ==
    \A h \in Handlers :
        rpc[h].kind = "GetDevicePath" =>
            LET calls == rpc[h].calls
                last == Len(calls)
            IN  /\ Attempts(calls, last) <= 20
                /\ \A i \in 1..last :
                      calls[i] = "attempt" =>
                          \/ /\ i + 2 <= last
                             /\ calls[i + 1] = "scan"
                             /\ calls[i + 2] = "udevadm trigger"
                          \/ /\ i = last
                             /\ rpc[h].pc = "done"
                             /\ rpc[h].resp.err \in {"", "device path was empty"}
                /\ rpc[h].pc = "done" =>
                      /\ rpc[h].resp.path = <<>> <=> rpc[h].resp.err # ""
                      /\ rpc[h].resp.path # <<>> => calls[last] = "attempt"
                /\ (Attempts(calls, last) = 20 /\ calls[last] = "udevadm trigger") =>
                      rpc[h].pc = "done" /\ rpc[h].resp.err # ""

\* Twenty attempts have found no device, each followed by the rescan, and
\* GetDevicePath has returned an error.
C26_Witness ==
    \E h \in Handlers :
        /\ Returned(h, "GetDevicePath")
        /\ Len(rpc[h].calls) = 60
        /\ rpc[h].calls[60] = "udevadm trigger"
        /\ rpc[h].resp.path = <<>>
        /\ rpc[h].resp.err # ""

\* The size in GiB that CreateVolumeFromSnapshot is about to be called with
\* is the larger of the size determined from the capacity range and the size
\* the cloud records for the snapshot, rounded up.
C29_RequestedSize ==
    \A h \in Handlers :
        rpc[h].pc = "cv_fromsnap" =>
            LET determined == determineSize(rpc[h].req.range).size
                snapshotGB == CeilGB(snapshots[rpc[h].req.snapshot].size)
            IN  rpc[h].loc.sizeInGB =
                    IF snapshotGB > determined THEN snapshotGB ELSE determined

\* With a snapshot that does not exist the lookup ends the RPC with NotFound.
C29_Missing ==
    \A h \in Handlers :
        (rpc[h].pc = "cv_getsnap" /\ rpc'[h] # rpc[h]
            /\ GetSnapshotByID(rpc[h].req.snapshot).err = "NotFound")
        => /\ rpc'[h].pc = "done"
           /\ rpc'[h].resp.code \in {"NotFound", "Internal"}
           /\ volumes' = volumes

\* C29: a volume made from a snapshot is asked of the cloud with
\* max(size determined from the capacity range, ceil(snapshot size / GiB))
\* GiB, the snapshot size being the one the cloud records; for a snapshot
\* that does not exist CreateVolume returns NotFound and creates no volume.
C29_FromSnapshotSize == [](C29_RequestedSize) /\ [][C29_Missing]_vars

(***************************************************************************)
(* pkg/util units alone: RoundUpBytesToGB over every byte count an int64   *)
(* holds, and GigaBytesToBytes followed by RoundUpBytesToGB over every     *)
(* count of GiB up to the first one an int64 does not hold.                *)
(***************************************************************************)
\* 2^33 at the model's scale: the first count of GiB whose bytes pass MaxInt64.
TopGB == (MaxInt64 \div GiB) + 1

InitUnits ==
    /\ volumes = [id \in VolumeIDs |-> NoVol]
    /\ nextID = 1
    /\ snapshots = [id \in SnapshotIDs |-> NoSnap]
    /\ volumeLocks = {}
    /\ operationLocks = {}
    /\ \E kind \in {"RoundUpBytesToGB", "GigaBytesToBytes"} :
         \E n \in 0..(IF kind = "RoundUpBytesToGB" THEN MaxInt64 ELSE TopGB) :
            rpc = [h \in Handlers |->
                     IF h = "h1"
                     THEN [Idle EXCEPT !.kind = kind, !.req = n]
                     ELSE Idle]

RoundUpBytesToGBCall ==
    /\ rpc["h1"].kind = "RoundUpBytesToGB"
    /\ rpc["h1"].pc = "idle"
    /\ rpc' = [rpc EXCEPT !["h1"].pc = "done",
                          !["h1"].resp = [gb |-> RoundUpBytesToGB(rpc["h1"].req)]]
    /\ UNCHANGED <<volumes, nextID, snapshots, volumeLocks, operationLocks>>

GigaBytesToBytesCall ==
    /\ rpc["h1"].kind = "GigaBytesToBytes"
    /\ rpc["h1"].pc = "idle"
    /\ rpc' = [rpc EXCEPT !["h1"].pc = "bytes",
                          !["h1"].loc = [bytes |-> GigaBytesToBytes(rpc["h1"].req)]]
    /\ UNCHANGED <<volumes, nextID, snapshots, volumeLocks, operationLocks>>

RoundUpBytesToGBOfBytesCall ==
    /\ rpc["h1"].kind = "GigaBytesToBytes"
    /\ rpc["h1"].pc = "bytes"
    /\ rpc' = [rpc EXCEPT !["h1"].pc = "done",
                          !["h1"].resp = [gb |-> RoundUpBytesToGB(rpc["h1"].loc.bytes)]]
    /\ UNCHANGED <<volumes, nextID, snapshots, volumeLocks, operationLocks>>

NextUnits == RoundUpBytesToGBCall \/ GigaBytesToBytesCall \/ RoundUpBytesToGBOfBytesCall

SpecUnits == InitUnits /\ [][NextUnits]_vars

\* ceil(b / GiB), not computed as the code computes it: the least count of
\* GiB that holds b bytes.
CeilGiB(b) == CHOOSE g \in 0..(b + 1) : g * GiB >= b /\ (g = 0 \/ (g - 1) * GiB < b)

\* RoundUpBytesToGB(b) = ceil(b / GiB) for the byte count b >= 0 it was given.
C30_Ceil ==
    (rpc["h1"].kind = "RoundUpBytesToGB" /\ rpc["h1"].pc = "done")
        => rpc["h1"].resp.gb = CeilGiB(rpc["h1"].req)

\* GigaBytesToBytes(g) = g * GiB and RoundUpBytesToGB of it is g again, for
\* the counts g of GiB in 0..top.
C30_RoundTripUpTo(top) ==
    (rpc["h1"].kind = "GigaBytesToBytes" /\ rpc["h1"].req <= top)
        => /\ rpc["h1"].pc \in {"bytes", "done"}
              => rpc["h1"].loc.bytes = rpc["h1"].req * GiB
           /\ rpc["h1"].pc = "done" => rpc["h1"].resp.gb = rpc["h1"].req

\* C30 as stated: RoundUpBytesToGB(b) equals ceil(b / 2^30) for every b >= 0
\* and GigaBytesToBytes(g) equals g * 2^30, so
\* RoundUpBytesToGB(GigaBytesToBytes(g)) = g for every g from 0 to 2^33.
C30_RoundTrip == C30_Ceil /\ C30_RoundTripUpTo(TopGB)

\* C30 (amended): RoundUpBytesToGB(b) equals ceil(b / 2^30) for every b >= 0
\* and GigaBytesToBytes(g) equals g * 2^30 with
\* RoundUpBytesToGB(GigaBytesToBytes(g)) = g for every g from 0 to 2^33 - 1;
\* 2^33 GiB are 2^63 bytes, one more than an int64 holds.
C30_RoundTripBelowTop == C30_Ceil /\ C30_RoundTripUpTo(TopGB - 1)

\* The round trip has been made for the largest count of GiB an int64 holds.
C30_Witness ==
    /\ rpc["h1"].kind = "GigaBytesToBytes"
    /\ rpc["h1"].pc = "done"
    /\ rpc["h1"].req = TopGB - 1
    /\ rpc["h1"].loc.bytes + GiB - 1 = MaxInt64
    /\ rpc["h1"].resp.gb = TopGB - 1

(***************************************************************************)
(* C31.  A controller RPC that returns InvalidArgument has issued no       *)
(* state-changing cloud call and leaves both lock registries as they were  *)
(* before it started; CreateVolume, DeleteVolume, ControllerPublishVolume  *)
(* and ControllerExpandVolume requests with a missing name or ID, missing  *)
(* capabilities or a missing disk-offering parameter are rejected before   *)
(* any lock is taken and before any cloud call.                            *)
(***************************************************************************)
\* The request of task h lacks a name or ID, its capabilities or its disk
\* offering.
MissingArgument(r) ==
    CASE r.kind = "CreateVolume" ->
            r.req.name = "" \/ r.req.caps = <<>> \/ r.req.offering = ""
      [] r.kind = "DeleteVolume" -> r.req.volume_id = ""
      [] r.kind = "ControllerPublishVolume" ->
            r.req.volume_id = "" \/ r.req.node_id = ""
      [] r.kind = "ControllerExpandVolume" -> r.req.volume_id = ""
      [] OTHER -> FALSE

ReturnsInvalidArgument(h) ==
    /\ rpc'[h] # rpc[h]
    /\ rpc'[h].pc = "done"
    /\ rpc'[h].resp.code = "InvalidArgument"

\* The step in which a task returns InvalidArgument changes nothing in the
\* cloud and nothing in the operation-kind registry; the identifier registry
\* is left as it was when the RPC started: untouched when the RPC is rejected
\* on its arguments, and with the one key the RPC had acquired released again
\* when it is rejected later.
C31_Step ==
    \A h \in Handlers :
        ReturnsInvalidArgument(h) =>
            /\ CloudUnchanged
            /\ rpc'[h].calls = <<>>
            /\ operationLocks' = operationLocks
            /\ IF Free(h)
               THEN volumeLocks' = volumeLocks
               ELSE /\ Key(rpc[h]) \in volumeLocks
                    /\ volumeLocks' = volumeLocks \ {Key(rpc[h])}

\* A request that lacks a name or ID, its capabilities or its disk offering is
\* answered in the step that starts it, with InvalidArgument.
C31_Rejected ==
    \A h \in Handlers :
        (Begins(h, {"CreateVolume", "DeleteVolume", "ControllerPublishVolume",
                    "ControllerExpandVolume"}) /\ MissingArgument(rpc'[h]))
            => /\ ReturnsInvalidArgument(h)
               /\ UNCHANGED <<volumes, nextID, snapshots, volumeLocks, operationLocks>>

\* C31: an RPC that returned InvalidArgument made no state-changing cloud
\* call, holds no lock, and took none when its arguments were missing.
C31_InvalidArgumentNoEffect ==
    /\ [](\A h \in Handlers :
            (rpc[h].pc = "done" /\ rpc[h].resp.code = "InvalidArgument")
                => (rpc[h].calls = <<>> /\ volumeLocks = {} /\ operationLocks = {}))
    /\ [][C31_Step /\ C31_Rejected]_vars

\* CreateVolume has returned InvalidArgument for a request that passed the
\* argument checks, that is after it had taken the lock on the name.
C31_Witness ==
    /\ Returned("h1", "CreateVolume")
    /\ rpc["h1"].resp.code = "InvalidArgument"
    /\ ~MissingArgument(rpc["h1"])
    /\ isValidVolumeCapabilities(rpc["h1"].req.caps)
    /\ volumeLocks = {}

(***************************************************************************)
(* C32.  When CreateVolume succeeds for a request that carries exactly one *)
(* requisite topology, the volume it returns is in the requisite zone and  *)
(* the response's AccessibleTopology names that zone, for a newly created  *)
(* volume, for an existing volume, and for a volume created from a         *)
(* snapshot.                                                               *)
(***************************************************************************)
\* C32: a CreateVolume that succeeded with one requisite topology returns a
\* volume of the requisite zone and names that zone in its response.
C32_RequisiteZone ==
    \A h \in Handlers :
        (Returned(h, "CreateVolume") /\ rpc[h].resp.code = "OK"
            /\ Len(rpc[h].req.requisite) = 1) =>
            LET zone == NewTopology(rpc[h].req.requisite[1]).ZoneID
            IN  /\ rpc[h].resp.ZoneID = zone
                /\ volumes[rpc[h].resp.VolumeId] # NoVol
                       => volumes[rpc[h].resp.VolumeId].zone = zone

(***************************************************************************)
(* CreateVolume by one task over a cloud that already holds volumes, made  *)
(* by this driver or not: none, one, or several of one name.               *)
(***************************************************************************)
InitNames ==
    /\ \E k \in 0..MaxVolumes :
       \E name \in [1..k -> Names] : \E offering \in [1..k -> Offerings] :
          /\ volumes = [id \in VolumeIDs |->
                          IF \E i \in 1..k : AllIDs[i] = id
                          THEN LET i == CHOOSE i \in 1..k : AllIDs[i] = id
                               IN  [id |-> id, name |-> name[i], size |-> GiB,
                                    offering |-> offering[i], zone |-> "z1",
                                    vmid |-> "", deviceid |-> 0]
                          ELSE NoVol]
          /\ nextID = k + 1
    /\ snapshots = [id \in SnapshotIDs |->
                      IF id = "s1"
                      THEN [id |-> id, name |-> "sn1", volume |-> "v0",
                            size |-> 2 * GiB + 1, zone |-> "z1", project |-> "",
                            created |-> <<"2025-07-07T16:13:06", "-0700">>]
                      ELSE NoSnap]
    /\ volumeLocks = {}
    /\ operationLocks = {}
    /\ rpc = [h \in Handlers |-> Idle]

NextNames ==
    \/ \E req \in CreateRequests : CreateVolumeBegin("h1", req)
    \/ CreateVolumeLookup("h1")
    \/ CreateVolumeGetSnapshot("h1")
    \/ CreateVolumeFromSnapshot("h1")
    \/ CreateVolumeListZones("h1")
    \/ CreateVolumeCreate("h1")

SpecNames == InitNames /\ [][NextNames]_vars

(***************************************************************************)
(* C33.  If more than one cloud volume carries the requested name,         *)
(* GetVolumeByName fails with TooManyResults and CreateVolume returns      *)
(* Internal without creating another volume; if none carries it,           *)
(* GetVolumeByName fails with NotFound and CreateVolume proceeds to        *)
(* create.                                                                 *)
(***************************************************************************)
Carrying(name) == {v \in Existing : v.name = name}

\* GetVolumeByName answers TooManyResults for a name that several volumes
\* carry and NotFound for a name that none carries.
C33_GetVolumeByName ==
    \A name \in Names :
        /\ Cardinality(Carrying(name)) > 1 => GetVolumeByName(name).err = "TooManyResults"
        /\ Cardinality(Carrying(name)) = 0 => GetVolumeByName(name).err = "NotFound"

\* The step of CreateVolume that looks the name up: with several volumes of
\* the name it returns Internal, having made no create call and no volume;
\* with none it goes on to the calls that create the volume, unless the
\* lookup itself failed (Internal) or the request is rejected
\* (InvalidArgument).
C33_Lookup ==
    \A h \in Handlers :
        (rpc[h].kind = "CreateVolume" /\ rpc[h].pc = "cv_lookup" /\ rpc'[h] # rpc[h]) =>
            /\ Cardinality(Carrying(rpc[h].req.name)) > 1 =>
                  /\ rpc'[h].pc = "done"
                  /\ rpc'[h].resp.code = "Internal"
                  /\ rpc'[h].calls = <<>>
                  /\ CloudUnchanged
            /\ Cardinality(Carrying(rpc[h].req.name)) = 0 =>
                  \/ rpc'[h].pc \in {"cv_getsnap", "cv_zones", "cv_create"}
                  \/ /\ rpc'[h].pc = "done"
                     /\ rpc'[h].resp.code \in {"Internal", "InvalidArgument"}

\* A CreateVolume that went on to create did so for a name no volume carried,
\* and when it succeeds the cloud holds one more volume, of that name.
C33_Creates ==
    \A h \in Handlers :
        (rpc[h].kind = "CreateVolume" /\ rpc[h].pc \in {"cv_fromsnap", "cv_create"}
            /\ rpc'[h] # rpc[h]) =>
            /\ Cardinality(Carrying(rpc[h].req.name)) = 0
            /\ rpc'[h].resp.code = "OK" =>
                  /\ Cardinality(Existing') = Cardinality(Existing) + 1
                  /\ volumes'[rpc'[h].resp.VolumeId].name = rpc[h].req.name

\* C33: several volumes of the requested name make GetVolumeByName fail with
\* TooManyResults and CreateVolume return Internal without creating another
\* volume; no volume of the name makes GetVolumeByName fail with NotFound and
\* CreateVolume go on to create.
C33_NameLookup == [](C33_GetVolumeByName) /\ [][C33_Lookup /\ C33_Creates]_vars

\* CreateVolume has returned Internal, with no create call, for a name that
\* two volumes carry.
C33_Witness ==
    /\ Returned("h1", "CreateVolume")
    /\ rpc["h1"].resp.code = "Internal"
    /\ rpc["h1"].calls = <<>>
    /\ Cardinality(Carrying(rpc["h1"].req.name)) = 2

(***************************************************************************)
(* C34.  ControllerUnpublishVolume with an empty node_id, for a volume     *)
(* that is attached to an existing VM, calls DetachVolume for that volume, *)
(* so the volume is detached when the RPC returns success.                 *)
(***************************************************************************)
\* C34: after a ControllerUnpublishVolume without node_id has returned
\* success, the volume is attached to no VM; when it was attached, the RPC
\* called DetachVolume.
C34_DetachedWithoutNode ==
    \A h \in Handlers :
        (Returned(h, "ControllerUnpublishVolume") /\ rpc[h].resp.code = "OK"
            /\ rpc[h].req.node_id = ""
            /\ rpc[h].req.volume_id \in VolumeIDs
            /\ volumes[rpc[h].req.volume_id] # NoVol) =>
            volumes[rpc[h].req.volume_id].vmid = ""

(***************************************************************************)
(* C35.  CreateSnapshot is idempotent: repeating CreateSnapshot with the   *)
(* same name and the same source volume returns the SnapshotId of the      *)
(* first call, and after any number of such calls exactly one snapshot     *)
(* with that name exists for that volume.                                  *)
(***************************************************************************)
\* The snapshots of the volume that carry the name.
SnapshotsNamed(volumeID, name) ==
    {id \in SnapshotIDs :
        Live(id) /\ snapshots[id].name = name /\ snapshots[id].volume = volumeID}

\* A CreateSnapshot that succeeds for a name that a snapshot of the source
\* volume carries returns that snapshot and makes no other.
C35_Repeat ==
    \A h \in Handlers :
        (/\ rpc[h].kind = "CreateSnapshot" /\ rpc[h].pc = "cs_create"
         /\ rpc'[h].pc = "done" /\ rpc'[h].resp.code = "OK"
         /\ SnapshotsNamed(rpc[h].loc.vol.ID, rpc[h].req.name) # {})
        => /\ rpc'[h].resp.SnapshotId \in SnapshotsNamed(rpc[h].loc.vol.ID, rpc[h].req.name)
           /\ UNCHANGED snapshots

\* C35: a repeated CreateSnapshot returns the SnapshotId of the first call,
\* and no volume has two snapshots of one name.
C35_Idempotent ==
    /\ [](\A volumeID \in VolumeIDs : \A name \in SnapshotNames :
             Cardinality(SnapshotsNamed(volumeID, name)) <= 1)
    /\ [][C35_Repeat]_vars

(***************************************************************************)
(* C36.  Whenever DeleteVolume returns success, no volume with that ID     *)
(* exists in the cloud afterwards; this also holds when the cloud rejected *)
(* the delete with an error containing 4350 for a reason other than the    *)
(* volume being absent.                                                    *)
(***************************************************************************)
\* C36: once DeleteVolume has returned success the cloud has no volume of the
\* ID, whatever the cloud answered to the delete call.
C36_DeletedOnSuccess ==
    \A h \in Handlers :
        (Returned(h, "DeleteVolume") /\ rpc[h].resp.code = "OK")
            => GetVolumeByID(rpc[h].req.volume_id).err = "NotFound"

(***************************************************************************)
(* Discovery for two volumes attached to one node, neither mounted.  The   *)
(* node presents the two as two Xen devices, as two SCSI devices, or as    *)
(* two links under /dev/disk/by-id; its other device paths are absent or   *)
(* are disks that are mounted.                                             *)
(***************************************************************************)
OtherNodeVolumeID == [NodeVolumeID EXCEPT ![1] = "f"]

NodeVolumeIDs == [h1 |-> NodeVolumeID, h2 |-> OtherNodeVolumeID]

PairSourcePaths ==
    SourcePaths(diskUUIDToSerial(NodeVolumeID))
        \cup SourcePaths(diskUUIDToSerial(OtherNodeVolumeID))

\* The file systems in which the two volumes are the devices of the
\* directory at two letters.
PairDeviceFileSystems(dir) ==
    {fs \in [DevicePaths \cup PairSourcePaths -> {"absent", "mounted", "free"}] :
        /\ \A path \in PairSourcePaths : fs[path] = "absent"
        /\ \A path \in DevicePaths :
              IF path[1] = dir
              THEN fs[path] \in {"mounted", "free"}
              ELSE fs[path] \in {"absent", "mounted"}
        /\ Cardinality({path \in DevicePaths : fs[path] = "free"}) = 2}

\* The file systems in which the two volumes are the links with the prefix.
PairSourceFileSystems(prefix) ==
    {fs \in [DevicePaths \cup PairSourcePaths -> {"absent", "mounted", "present"}] :
        /\ \A path \in PairSourcePaths :
              fs[path] = IF path[2] = prefix THEN "present" ELSE "absent"
        /\ \A path \in DevicePaths : fs[path] \in {"absent", "mounted"}}

PairFileSystems ==
    PairDeviceFileSystems("/dev/xvd") \cup PairDeviceFileSystems("/dev/sd")
        \cup UNION {PairSourceFileSystems(sourcePathPrefixes[i]) : i \in 1..3}

InitPair ==
    /\ volumes = [id \in VolumeIDs |-> NoVol]
    /\ nextID = 1
    /\ snapshots = [id \in SnapshotIDs |-> NoSnap]
    /\ volumeLocks = {}
    /\ operationLocks = {}
    /\ \E fs \in PairFileSystems :
          rpc = [h \in Handlers |->
                   [Idle EXCEPT !.kind = "getDevicePathBySerialID",
                                !.req = [volumeID |-> NodeVolumeIDs[h], fs |-> fs]]]

NextPair == \E h \in Handlers : getDevicePathBySerialIDCall(h)

SpecPair == InitPair /\ [][NextPair]_vars

(***************************************************************************)
(* C37.  GetDevicePath returns a device that belongs to the requested      *)
(* volume: while two different volumes are attached to the node and        *)
(* neither is mounted yet, device discovery for the two volume IDs never   *)
(* returns the same device path.                                           *)
(***************************************************************************)
\* C37: the discoveries for the two volumes, both having found a path, have
\* found two different paths.
C37_DistinctDevices ==
    (/\ \A h \in Handlers : rpc[h].kind = "getDevicePathBySerialID" /\ rpc[h].pc = "done"
     /\ rpc["h1"].req.volumeID # rpc["h2"].req.volumeID
     /\ rpc["h1"].resp.path # <<>>
     /\ rpc["h2"].resp.path # <<>>)
        => rpc["h1"].resp.path # rpc["h2"].resp.path

(***************************************************************************)
(* Two concurrent tasks contending for the name n1 and the volume v1,      *)
(* every call to the cloud returning: a task that is inside an RPC goes    *)
(* on to the handler's next step sooner or later.                          *)
(***************************************************************************)
LiveCreateRequests ==
    {CreateVolumeRequest("n1", "o1", NoRange, <<>>, ""),
     CreateVolumeRequest("n1", "o1", Range(1, GiB), <<>>, "s1")}

LiveDeleteRequests == [volume_id : {"v1"}]

LiveExpandRequests == [volume_id : {"v1"}, range : {Range(GiB + 1, 0)}]

\* The steps of task h that follow the start of its RPC.
Continue(h) ==
    \/ CreateVolumeLookup(h)
    \/ CreateVolumeGetSnapshot(h)
    \/ CreateVolumeFromSnapshot(h)
    \/ CreateVolumeListZones(h)
    \/ CreateVolumeCreate(h)
    \/ DeleteVolumeDelete(h)
    \/ ControllerPublishVolumeGetVolume(h)
    \/ ControllerPublishVolumeGetVM(h)
    \/ ControllerPublishVolumeAttach(h)
    \/ ControllerUnpublishVolumeGetVolume(h)
    \/ ControllerUnpublishVolumeGetVM(h)
    \/ ControllerUnpublishVolumeDetach(h)
    \/ ControllerExpandVolumeGetVolume(h)
    \/ ControllerExpandVolumeExpand(h)

NextLive ==
    \E h \in Handlers :
        Step(h, LiveCreateRequests, LiveDeleteRequests, PublishRequests,
             UnpublishRequests, LiveExpandRequests)

SpecLive ==
    /\ Init
    /\ [][NextLive]_vars
    /\ \A h \in Handlers : WF_vars(Continue(h))

(***************************************************************************)
(* C38.  No controller RPC ever waits for a lock: a handler that cannot    *)
(* acquire the identifier lock or the operation-kind lock returns Aborted  *)
(* at once, so no interleaving of controller RPCs deadlocks; if every      *)
(* cloud call returns, every RPC terminates, and a caller that retries a   *)
(* request after the current lock holder has returned acquires the lock.   *)
(***************************************************************************)
\* Some other task is inside a locking RPC on the key.
HeldByOther(h, k) == \E g \in Handlers \ {h} : Holds(g, k)

\* A locking RPC that starts while another task holds its key returns Aborted
\* in the step that starts it; one that starts while no task holds its key is
\* not turned away.
C38_Acquire ==
    \A h \in Handlers :
        (Begins(h, LockingKinds) /\ ~MissingArgument(rpc'[h])
            /\ (rpc'[h].kind = "CreateVolume" => rpc'[h].req.caps # <<>>)
            /\ (rpc'[h].kind = "ControllerExpandVolume" => rpc'[h].req.range.present)) =>
            IF HeldByOther(h, Key(rpc'[h]))
            THEN rpc'[h].pc = "done" /\ rpc'[h].resp.code = "Aborted"
            ELSE rpc'[h].resp.code # "Aborted"

\* A task inside an RPC can take the handler's next step whatever the other
\* tasks are doing.
C38_NotBlocked == \A h \in Handlers : InFlight(h) => ENABLED Continue(h)

\* C38: a locking RPC whose key is held returns Aborted at once and one whose
\* key is free acquires it; no task inside an RPC is ever blocked; and every
\* RPC returns.
C38_NonBlocking ==
    /\ [](C38_NotBlocked)
    /\ [][C38_Acquire]_vars
    /\ \A h \in Handlers : InFlight(h) ~> ~InFlight(h)

\* A task was turned away with Aborted and the task that holds the key is
\* still inside its RPC.
C38_Witness ==
    \E h \in Handlers :
        /\ rpc[h].pc = "done"
        /\ rpc[h].kind \in LockingKinds
        /\ rpc[h].resp.code = "Aborted"
        /\ rpc[h].calls = <<>>
        /\ HeldByOther(h, Key(rpc[h]))
        /\ volumeLocks = {Key(rpc[h])}

(***************************************************************************)
(* Two concurrent tasks publishing the volume v1 to the nodes vm1 and vm2  *)
(* and unpublishing it from them.                                          *)
(***************************************************************************)
AttachPublishRequests == {PublishRequest("v1", vmID) : vmID \in VMs}

AttachUnpublishRequests == [volume_id : {"v1"}, node_id : VMs]

InitAttach ==
    /\ volumes = [id \in VolumeIDs |->
                    IF id = "v1"
                    THEN [id |-> id, name |-> "n1", size |-> GiB, offering |-> "o1",
                          zone |-> "z1", vmid |-> "", deviceid |-> 0]
                    ELSE NoVol]
    /\ nextID = 2
    /\ snapshots = [id \in SnapshotIDs |-> NoSnap]
    /\ volumeLocks = {}
    /\ operationLocks = {}
    /\ rpc = [h \in Handlers |-> Idle]

NextAttach ==
    \E h \in Handlers :
        \/ \E req \in AttachPublishRequests : ControllerPublishVolumeBegin(h, req)
        \/ ControllerPublishVolumeGetVolume(h)
        \/ ControllerPublishVolumeGetVM(h)
        \/ ControllerPublishVolumeAttach(h)
        \/ \E req \in AttachUnpublishRequests : ControllerUnpublishVolumeBegin(h, req)
        \/ ControllerUnpublishVolumeGetVolume(h)
        \/ ControllerUnpublishVolumeGetVM(h)
        \/ ControllerUnpublishVolumeDetach(h)

SpecAttach == InitAttach /\ [][NextAttach]_vars

(***************************************************************************)
(* C39.  The DetachVolume call issued by ControllerUnpublishVolume(volume, *)
(* node_id = N) with N non-empty only ever detaches the volume from VM N:  *)
(* at the moment the cloud executes that detach the volume is attached to  *)
(* N or is already detached, even when ControllerPublishVolume and         *)
(* ControllerUnpublishVolume requests for the same volume run              *)
(* concurrently.                                                           *)
(***************************************************************************)
C39_Detach ==
    \A h \in Handlers :
        (/\ rpc[h].kind = "ControllerUnpublishVolume" /\ rpc[h].pc = "uv_detach"
         /\ rpc'[h] # rpc[h]
         /\ rpc[h].req.node_id # "")
        => volumes[rpc[h].req.volume_id].vmid \in {rpc[h].req.node_id, ""}

\* C39: when ControllerUnpublishVolume for the node N makes its DetachVolume
\* call, the volume is attached to N or to no VM.
C39_DetachesFromNode == [][C39_Detach]_vars

====
